---- MODULE Spec2Model ----
(***************************************************************************)
(* Model of the live-object loading and caching core of dworek:            *)
(*   - CallbackLatch (fan-in latch), MutexLoader (single-flight loader)    *)
(*     and ModelInstanceManager (identity cache): util classes required by *)
(*     the sources but not present under src/, modelled from spec.md 4.1,  *)
(*     4.2 and 4.3;                                                        *)
(*   - FactoryManager (src/server/app/live/factory/FactoryManager.js);     *)
(*   - GameUserModelManager (src/server/app/route/ajax/team/deleteTeam.js, *)
(*     second half of the file).                                           *)
(* Three specifications share the module: SpecLatch drives one latch with  *)
(* arbitrary add/resolve/then orders, SpecFM runs one FactoryManager with  *)
(* concurrent getFactory callers, load() and getVisibleFactories(), and    *)
(* SpecGUM runs the read-through operations of GameUserModelManager        *)
(* against a fast store and an authoritative store.                        *)
(***************************************************************************)
EXTENDS Integers, Sequences, FiniteSets, TLC

\* ------------------------------------------------------------------ bounds
MaxK == 3             \* SpecLatch: largest number k of add/resolve pairs
NumConts == 2         \* SpecLatch: continuations that may be registered

NumFactories == 2     \* SpecFM: factory IDs known to the authoritative store
NumCallers == 2       \* SpecFM: external getFactory calls
MaxLoadCalls == 1     \* SpecFM: FactoryManager.load() calls

NumSlots == 1         \* SpecGUM: read operations that may be in progress at once
MaxReadCalls == 2     \* SpecGUM: read operations called in a run
MaxRows == 2          \* SpecGUM: rows an authoritative query returns at most
NumGameUsers == 2     \* SpecGUM: game-user IDs
MaxFlushCalls == 1    \* SpecGUM: flushCache() calls

MaxListLen == 4       \* SpecUnload: entries of the loaded list at the start
MaxUnloadCalls == 2   \* SpecUnload: unload() and unloadFactory() calls in a run

MaxManagerUnloads == 2  \* SpecReload: unload() and unloadFactory() calls in a run
MaxPerKind == 2       \* SpecRecord: rows of one kind in a reply
NumQueryGames == 2    \* SpecQuery: games a filtered call may name
NumQueryUsers == 1    \* SpecQuery: users options.user may name
MaxQueryCalls == 2    \* SpecQuery: getGameUserCount and getGameUsers calls in a run

MaxTeams == 3         \* SpecRoute: team IDs in the body of a delete request

Conts == 1..NumConts
FactoryIds == 1..NumFactories
Callers == 1..NumCallers

VARIABLES
    \* --- SpecLatch: one CallbackLatch and its driver
    latch,        \* the latch object
    lK,           \* k: how many adds (and resolves) this run makes
    lAdds,        \* add() calls made so far
    lResolves,    \* resolve() calls made so far
    lThen,        \* continuations handed to then() so far
    lFired,       \* per continuation: how often it ran
    lFiredEarly,  \* per continuation: it ran before the k-th resolve
    lZeroed,      \* per continuation: the counter was zero while it was
                  \* registered (or being registered) and adds were to come
    lRegd,        \* the continuations handed to then(), in call order
    lRan          \* the continuations run so far, in the order they ran

VARIABLES
    \* --- SpecFM: one FactoryManager, its collaborators and its callers
    storeGame,    \* authoritative store: owning game of each factory ID,
                  \* "none" when no factory record has that ID
    factories,    \* this.factories: the loaded Factory objects, in order
    nextFac,      \* serial of the next Factory object constructed
    fmCache,      \* factoryModelManager._instanceManager
    mutex,        \* this._mutexLoader: per key, the in-flight record
    works,        \* load work functions that are running
    workStarts,   \* per key: work invocations so far
    caller,       \* the external getFactory calls
    ld,           \* the load() call in progress (or the last one)
    loadCalls,    \* load() calls made so far
    gv,           \* the getVisibleFactories() call
    errInjected   \* per key: the store reported an error for that key

VARIABLES
    \* --- SpecGUM: one GameUserModelManager and the two stores
    redis,        \* fast store: per key the record stored, nil when absent
    guCache,      \* this._instanceManager
    read,         \* per slot: the read operation in progress (or the last)
    readCalls,    \* read operations called so far
    flush,        \* the flushCache() call in progress (or the last one)
    flushCalls,   \* flushCache() calls made so far
    flushDone,    \* flushCache() calls that called back without error
    created       \* every wrapper create() returned: [id, obj, epoch, via],
                  \* the epoch being the number of flushCache() calls before
                  \* it and via the operation that called create()

VARIABLES
    \* --- SpecRoute: one POST request to the deleteTeam route
    chain         \* the request handler's closure: its latch, its flags, the
                  \* calls it is waiting for and the responses it has sent

VARIABLES
    \* --- SpecUnload: a FactoryManager whose loaded list is given
    ul            \* its this.factories, the unload() calls its Factory
                  \* objects received, and the last call made on it

VARIABLES
    \* --- SpecQuery: the filtered calls of GameUserModelManager
    gq            \* per call made: its arguments, the cache key and the
                  \* query object it built

VARIABLES
    \* --- SpecReload: the FactoryManager of SpecFM with unload calls
    un            \* the unload() and unloadFactory() calls made so far, and
                  \* what was going on at the last unload()

VARIABLES
    \* --- SpecRecord: one authoritative reply, its record and a hit on it
    rec           \* the rows, the value called back from them, the string
                  \* written back and the value a hit on it calls back

latchVars == <<latch, lK, lAdds, lResolves, lThen, lFired, lFiredEarly, lZeroed,
               lRegd, lRan>>
fmVars == <<storeGame, factories, nextFac, fmCache, mutex, works, workStarts,
            caller, ld, loadCalls, gv, errInjected>>

gumVars == <<redis, guCache, read, readCalls, flush, flushCalls, flushDone, created>>

restVars == <<chain, ul, gq, un, rec>>

\* What the steps of the route, and of the unload calls, leave alone.
routeRest == <<latchVars, fmVars, gumVars, ul, gq, un, rec>>
unloadRest == <<latchVars, fmVars, gumVars, chain, gq, un, rec>>
queryRest == <<latchVars, fmVars, gumVars, chain, ul, un, rec>>
reloadRest == <<latchVars, gumVars, chain, ul, gq, rec>>
recordRest == <<latchVars, fmVars, gumVars, chain, ul, gq, un>>

vars == <<latchVars, fmVars, gumVars, restVars>>

\* ------------------------------------------------------------------ helpers
SeqToSet(s) == {s[i] : i \in 1..Len(s)}

Min(S) == CHOOSE x \in S : \A y \in S : x <= y

\* The elements of a set of numbers as an ascending sequence.
RECURSIVE SetToSeq(_)
SetToSeq(S) == IF S = {} THEN <<>> ELSE <<Min(S)>> \o SetToSeq(S \ {Min(S)})

\* ---------------------------------------------------------- CallbackLatch
\* A latch is [count, conts, defer]: the pending counter, the continuations
\* registered through then() in registration order, and the continuations
\* deferred to the next loop tick.
LatchNew == [count |-> 0, conts |-> <<>>, defer |-> <<>>]

LatchAdd(l, n) == [l EXCEPT !.count = @ + n]

\* The continuations a resolve() runs: all registered ones, in order, when
\* the counter reaches zero.
\* (LatchFiresEarly: a latch that fires one resolve too early.)
LatchFiresEarly(l) == IF l.count <= 2 THEN l.conts ELSE <<>>
\* (LatchFiresAlways: every resolve runs the registered continuations.)
LatchFiresAlways(l) == l.conts
LatchFires(l) == IF l.count = 1 THEN l.conts ELSE <<>>

LatchResolve(l) ==
    [l EXCEPT !.count = IF @ > 0 THEN @ - 1 ELSE 0,
              !.conts = IF LatchFires(l) # <<>> THEN <<>> ELSE @]

\* then(): on an idle latch the continuation is deferred to the next tick,
\* otherwise it is registered.
\* (LatchThenRegisters: on an idle latch the continuation is registered
\* like on a busy one.)
LatchThenRegisters(l, c) == [l EXCEPT !.conts = Append(@, c)]
\* (LatchThenPrepends: the continuation is put before the registered ones.)
LatchThenPrepends(l, c) ==
    IF l.count = 0
    THEN [l EXCEPT !.defer = Append(@, c)]
    ELSE [l EXCEPT !.conts = <<c>> \o @]
LatchThen(l, c) ==
    IF l.count = 0
    THEN [l EXCEPT !.defer = Append(@, c)]
    ELSE [l EXCEPT !.conts = Append(@, c)]

\* The next loop tick runs the first deferred continuation.
LatchTick(l) == [l EXCEPT !.defer = Tail(@)]

\* identity(): back to "no pending work", nothing fires.
LatchIdentity(l) == [l EXCEPT !.count = 0, !.conts = <<>>]

\* -------------------------------------------------------------- SpecLatch
InitLatch ==
    /\ latch = LatchNew
    /\ lK \in 0..MaxK
    /\ lAdds = 0
    /\ lResolves = 0
    /\ lThen = {}
    /\ lFired = [c \in Conts |-> 0]
    /\ lFiredEarly = [c \in Conts |-> FALSE]
    /\ lZeroed = [c \in Conts |-> FALSE]
    /\ lRegd = <<>>
    /\ lRan = <<>>

\* The driver runs the continuations in `run` (a sequence) at this moment.
RunConts(run, resolvesNow) ==
    /\ lFired' = [c \in Conts |->
                    lFired[c] + Cardinality({i \in 1..Len(run) : run[i] = c})]
    /\ lFiredEarly' = [c \in Conts |->
                    lFiredEarly[c] \/ (c \in SeqToSet(run) /\ resolvesNow < lK)]
    /\ lRan' = lRan \o run

DoLatchAdd ==
    /\ lAdds < lK
    /\ latch' = LatchAdd(latch, 1)
    /\ lAdds' = lAdds + 1
    /\ UNCHANGED <<lK, lResolves, lThen, lFired, lFiredEarly, lZeroed, lRegd, lRan>>
    /\ UNCHANGED <<fmVars, gumVars, restVars>>

DoLatchResolve ==
    /\ lResolves < lAdds
    /\ latch' = LatchResolve(latch)
    /\ lResolves' = lResolves + 1
    /\ RunConts(LatchFires(latch), lResolves + 1)
    /\ lZeroed' = [c \in Conts |->
                     lZeroed[c] \/ (/\ c \in lThen
                                    /\ latch'.count = 0
                                    /\ lAdds < lK)]
    /\ UNCHANGED <<lK, lAdds, lThen, lRegd>>
    /\ UNCHANGED <<fmVars, gumVars, restVars>>

DoLatchThen(c) ==
    /\ c \notin lThen
    /\ latch' = LatchThen(latch, c)
    /\ lThen' = lThen \cup {c}
    /\ lZeroed' = [lZeroed EXCEPT ![c] = latch.count = 0 /\ lAdds < lK]
    /\ lRegd' = Append(lRegd, c)
    /\ UNCHANGED <<lK, lAdds, lResolves, lFired, lFiredEarly, lRan>>
    /\ UNCHANGED <<fmVars, gumVars, restVars>>

DoLatchTick ==
    /\ latch.defer # <<>>
    /\ latch' = LatchTick(latch)
    /\ RunConts(<<Head(latch.defer)>>, lResolves)
    /\ UNCHANGED <<lK, lAdds, lResolves, lThen, lZeroed, lRegd>>
    /\ UNCHANGED <<fmVars, gumVars, restVars>>

NextLatch ==
    \/ DoLatchAdd
    \/ DoLatchResolve
    \/ \E c \in Conts : DoLatchThen(c)
    \/ DoLatchTick

\* ------------------------------------------------- ModelInstanceManager
\* An identity cache is [map, next]: the wrapper registered for each ID
\* (0: none) and the serial of the next wrapper constructed.
InstanceNew(ids) == [map |-> [i \in ids |-> 0], next |-> 1]

\* create(id): the cache after the call, and the wrapper the call returns.
InstanceCreate(cache, id) ==
    IF cache.map[id] # 0
    THEN cache
    ELSE [map |-> [cache.map EXCEPT ![id] = cache.next], next |-> cache.next + 1]

InstanceOf(cache, id) == InstanceCreate(cache, id).map[id]

\* clear(true): every registered wrapper is dropped.
InstanceClear(cache) == [cache EXCEPT !.map = [i \in DOMAIN cache.map |-> 0]]

\* ------------------------------------------------------------ MutexLoader
\* Per key the loader keeps [busy, queue]: whether a load is in flight and
\* the callbacks waiting for its result, in arrival order.
MutexNew(keys) == [k \in keys |-> [busy |-> FALSE, queue |-> <<>>]]

MutexBusy(m, key) == m[key].busy

MutexEnqueue(m, key, cb) ==
    [m EXCEPT ![key] = [busy |-> TRUE, queue |-> Append(@.queue, cb)]]

MutexWaiters(m, key) == m[key].queue

\* (MutexRemembers: the record stays after completion, only the queue goes.)
MutexRemembers(m, key) == [m EXCEPT ![key] = [busy |-> TRUE, queue |-> <<>>]]
MutexRelease(m, key) == [m EXCEPT ![key] = [busy |-> FALSE, queue |-> <<>>]]

\* --------------------------------------------------------- FactoryManager
ThisGame == "G1"
OtherGame == "G2"
StoreGames == {ThisGame, OtherGame, "none"}

\* Callbacks handed to loadFactory: the one of external call c, and the one
\* load() passes for factory f.
CbCaller(c) == [k |-> "caller", n |-> c]
CbLoad(f) == [k |-> "load", n |-> f]

\* What a load calls back with: err is "none" or the store call that failed
\* ("valid", "game") for factory ef; fac is the Factory object (0: null).
ResNull == [err |-> "none", ef |-> 0, fac |-> 0]
\* (ResErrSwallowed: the error is dropped, callback(null, null).)
ResErrSwallowed(what, f) == [err |-> "none", ef |-> 0, fac |-> 0]
ResErr(what, f) == [err |-> what, ef |-> f, fac |-> 0]
ResFactory(inst) == [err |-> "none", ef |-> 0, fac |-> inst]

CallerIdle ==
    [st |-> "idle", f |-> 0, res |-> ResNull, via |-> "none",
     pend |-> FALSE, started |-> FALSE, cyc |-> 0]

LoadIdle ==
    [st |-> "idle", calledBack |-> FALSE, latch |-> LatchNew, cb |-> <<>>,
     pend |-> {}, errs |-> <<>>, list |-> {}, before |-> <<>>]

VisIdle ==
    [st |-> "idle", calledBack |-> FALSE, latch |-> LatchNew, out |-> <<>>,
     cb |-> <<>>, snap |-> <<>>, check |-> <<>>, live |-> {}, vis |-> {},
     errs |-> <<>>]

\* Everything of FactoryManager but the store's content, after construction.
FMConstructed ==
    /\ factories = <<>>
    /\ nextFac = 1
    /\ fmCache = InstanceNew(FactoryIds)
    /\ mutex = MutexNew(FactoryIds)
    /\ works = {}
    /\ workStarts = [f \in FactoryIds |-> 0]
    /\ caller = [c \in Callers |-> CallerIdle]
    /\ ld = LoadIdle
    /\ loadCalls = 0
    /\ gv = VisIdle
    /\ errInjected = [f \in FactoryIds |-> FALSE]

InitFM ==
    /\ storeGame \in [FactoryIds -> StoreGames]
    /\ FMConstructed

\* The IDs of the loaded factories, in list order.
LoadedIds(fs) == [i \in 1..Len(fs) |-> fs[i].id]

\* getLoadedFactory(factoryId): the first loaded entry with that ID, 0 for null.
\* (getLoadedFactoryNever: no entry is ever recognised.)
getLoadedFactoryNever(fs, f) == 0
getLoadedFactory(fs, f) ==
    LET idx == {i \in 1..Len(fs) : fs[i].id = f}
    IN  IF idx = {} THEN 0 ELSE fs[Min(idx)].inst

\* The loader's part of the state, as loadFactory reads and changes it.
LoaderState == [mutex |-> mutex, works |-> works, starts |-> workStarts]

\* The work function starts: it issues isValidFactoryId(factoryId). `direct`
\* is empty when the work settles through the mutex loader.
StartWork(ls, f, direct) ==
    [ls EXCEPT !.works = @ \cup {[f |-> f, stage |-> "valid", direct |-> direct]},
               !.starts[f] = @ + 1]

\* MutexLoader.load(key, work, callback).
MutexLoad(ls, f, cb) ==
    LET queued == [ls EXCEPT !.mutex = MutexEnqueue(@, f, cb)]
    IN  IF MutexBusy(ls.mutex, f) THEN queued ELSE StartWork(queued, f, <<>>)

\* loadFactory(factoryId, callback) for a well-formed ID.
\* (loadFactoryNoMutex: the work is started for every call.)
loadFactoryNoMutex(ls, f, cb) == StartWork(ls, f, <<cb>>)
loadFactory(ls, f, cb) == MutexLoad(ls, f, cb)

\* unload(): the list of loaded factories is emptied.
\* (unloadKeepsList: the list is left as it is.)
unloadKeepsList(fs) == fs
unload(fs) == <<>>

\* The game check of loadFactory: the factory's game is this manager's game.
\* (isOtherGameAccepted: any game's factory passes.)
isOtherGameAccepted(f) == storeGame[f] # "none"
isPartOfThisGame(f) == storeGame[f] = ThisGame

\* The entry load() hands to its external callback: the error (or "none"),
\* and the loaded IDs at that moment.
LoadCbEntry(res, fs) == [err |-> res.err, ef |-> res.ef, loaded |-> LoadedIds(fs)]

\* The latch continuation of load(): callback(null).
loadDone(l, fs) == [l EXCEPT !.cb = Append(@, LoadCbEntry(ResNull, fs))]

\* The callback load() passes to loadFactory for factory f.
\* (loadFactoryCallbackUnguarded: without the calledBack guard.)
loadFactoryCallbackUnguarded(l, f, res, fs) ==
    IF res.err # "none"
    THEN [l EXCEPT !.cb = Append(@, LoadCbEntry(res, <<>>)),
                   !.calledBack = TRUE,
                   !.errs = Append(@, res),
                   !.pend = @ \ {f}]
    ELSE LET r == [l EXCEPT !.latch = LatchResolve(@), !.pend = @ \ {f}]
         IN  IF LatchFires(l.latch) # <<>> THEN loadDone(r, fs) ELSE r
loadFactoryCallback(l, f, res, fs) ==
    IF res.err # "none"
    THEN [l EXCEPT !.cb = IF l.calledBack THEN @
                          ELSE Append(@, LoadCbEntry(res, <<>>)),
                   !.calledBack = TRUE,
                   !.errs = Append(@, res),
                   !.pend = @ \ {f}]
    ELSE LET r == [l EXCEPT !.latch = LatchResolve(@), !.pend = @ \ {f}]
         IN  IF LatchFires(l.latch) # <<>> THEN loadDone(r, fs) ELSE r

\* The work of w settles with res: the in-flight record goes and every
\* waiting callback runs with res, in arrival order. fs is the loaded list
\* at this moment.
Settle(w, res, fs) ==
    LET cbs == IF w.direct = <<>> THEN MutexWaiters(mutex, w.f) ELSE w.direct
        got(c) == \E i \in 1..Len(cbs) : cbs[i] = CbCaller(c)
        loads == {i \in 1..Len(cbs) : cbs[i].k = "load"}
    IN  /\ works' = works \ {w}
        /\ mutex' = IF w.direct = <<>> THEN MutexRelease(mutex, w.f) ELSE mutex
        /\ caller' = [c \in Callers |->
                        IF got(c) THEN [caller[c] EXCEPT !.st = "done", !.res = res]
                        ELSE caller[c]]
        /\ ld' = IF loads # {} THEN loadFactoryCallback(ld, w.f, res, fs) ELSE ld
        /\ UNCHANGED workStarts

\* getFactory(factoryId, callback) by external call c, for a well-formed ID.
getFactory(c, f) ==
    /\ caller[c].st = "idle"
    /\ LET loaded == getLoadedFactory(factories, f)
           ls == loadFactory(LoaderState, f, CbCaller(c))
       IN  IF loaded # 0
           THEN /\ caller' = [caller EXCEPT ![c] =
                        [CallerIdle EXCEPT !.st = "done", !.f = f,
                                           !.res = ResFactory(loaded),
                                           !.via = "loaded"]]
                /\ UNCHANGED <<mutex, works, workStarts>>
           ELSE /\ caller' = [caller EXCEPT ![c] =
                        [CallerIdle EXCEPT
                            !.st = "wait", !.f = f, !.via = "load",
                            !.pend = \E w \in works : w.f = f,
                            !.started = ls.starts[f] # workStarts[f],
                            !.cyc = ls.starts[f]]]
                /\ mutex' = ls.mutex
                /\ works' = ls.works
                /\ workStarts' = ls.starts
    /\ UNCHANGED <<storeGame, factories, nextFac, fmCache, ld, loadCalls, gv,
                   errInjected>>
    /\ UNCHANGED <<latchVars, gumVars, restVars>>

\* isValidFactoryId calls back for work w: with an error, or with whether
\* the store holds a factory of that ID.
isValidFactoryIdReply(w, fails) ==
    /\ w \in works
    /\ w.stage = "valid"
    /\ IF fails
       THEN /\ Settle(w, ResErr("valid", w.f), factories)
            /\ errInjected' = [errInjected EXCEPT ![w.f] = TRUE]
            /\ UNCHANGED fmCache
       ELSE IF storeGame[w.f] = "none"
       THEN /\ Settle(w, ResNull, factories)
            /\ UNCHANGED <<fmCache, errInjected>>
       ELSE /\ fmCache' = InstanceCreate(fmCache, w.f)
            /\ works' = (works \ {w}) \cup {[w EXCEPT !.stage = "game"]}
            /\ UNCHANGED <<mutex, workStarts, caller, ld, errInjected>>
    /\ UNCHANGED <<storeGame, factories, nextFac, loadCalls, gv>>
    /\ UNCHANGED <<latchVars, gumVars, restVars>>

\* factoryModel.getGame calls back for work w: with an error, or with the
\* factory's game.
getGameReply(w, fails) ==
    /\ w \in works
    /\ w.stage = "game"
    /\ IF fails
       THEN /\ Settle(w, ResErr("game", w.f), factories)
            /\ errInjected' = [errInjected EXCEPT ![w.f] = TRUE]
            /\ UNCHANGED <<factories, nextFac>>
       ELSE IF ~isPartOfThisGame(w.f)
       THEN /\ Settle(w, ResNull, factories)
            /\ UNCHANGED <<factories, nextFac, errInjected>>
       ELSE LET newFactory == [id |-> w.f, inst |-> nextFac,
                               model |-> InstanceOf(fmCache, w.f)]
                fs == Append(factories, newFactory)
            IN  /\ factories' = fs
                /\ nextFac' = nextFac + 1
                /\ Settle(w, ResFactory(newFactory.inst), fs)
                /\ UNCHANGED errInjected
    /\ UNCHANGED <<storeGame, fmCache, loadCalls, gv>>
    /\ UNCHANGED <<latchVars, gumVars, restVars>>

\* The forEach of load(): for every listed factory, latch.add() and then
\* loadFactory(id, callback). st is [ls, latch].
RECURSIVE LoadEach(_, _)
LoadEach(st, list) ==
    IF list = <<>> THEN st
    ELSE LoadEach([ls |-> loadFactory(st.ls, Head(list), CbLoad(Head(list))),
                   latch |-> LatchAdd(st.latch, 1)],
                  Tail(list))

\* The load() call is over: nothing of it is still to come.
LoadOver ==
    \/ ld.st \in {"idle", "failed"}
    \/ ld.st = "loading" /\ ld.pend = {} /\ ld.latch.defer = <<>>

\* load(callback): getFactories(gameModel) is issued.
load ==
    /\ loadCalls < MaxLoadCalls
    /\ LoadOver
    /\ ld' = [LoadIdle EXCEPT !.st = "listing"]
    /\ loadCalls' = loadCalls + 1
    /\ UNCHANGED <<storeGame, factories, nextFac, fmCache, mutex, works,
                   workStarts, caller, gv, errInjected>>
    /\ UNCHANGED <<latchVars, gumVars, restVars>>

\* getFactories calls back: with an error, or with the factories of this
\* game. On success everything loaded is unloaded, each listed factory is
\* loaded under the latch, and the continuation is registered.
getFactoriesReply(fails) ==
    /\ ld.st = "listing"
    /\ IF fails
       THEN /\ ld' = [ld EXCEPT !.st = "failed",
                                !.cb = <<LoadCbEntry(ResErr("list", 0), <<>>)>>,
                                !.errs = <<ResErr("list", 0)>>]
            /\ UNCHANGED <<factories, mutex, works, workStarts>>
       ELSE LET listed == {f \in FactoryIds : storeGame[f] = ThisGame}
                each == LoadEach([ls |-> LoaderState, latch |-> LatchNew],
                                 SetToSeq(listed))
            IN  /\ factories' = unload(factories)
                /\ mutex' = each.ls.mutex
                /\ works' = each.ls.works
                /\ workStarts' = each.ls.starts
                /\ ld' = [ld EXCEPT !.st = "loading",
                                    !.latch = LatchThen(each.latch, "done"),
                                    !.pend = listed,
                                    !.list = listed,
                                    !.before = LoadedIds(factories)]
    /\ UNCHANGED <<storeGame, nextFac, fmCache, caller, loadCalls, gv, errInjected>>
    /\ UNCHANGED <<latchVars, gumVars, restVars>>

\* The loop tick that runs load()'s continuation registered on an idle latch.
loadTick ==
    /\ ld.st = "loading"
    /\ ld.latch.defer # <<>>
    /\ ld' = loadDone([ld EXCEPT !.latch = LatchTick(@)], factories)
    /\ UNCHANGED <<storeGame, factories, nextFac, fmCache, mutex, works,
                   workStarts, caller, loadCalls, gv, errInjected>>
    /\ UNCHANGED <<latchVars, gumVars, restVars>>

\* The latch continuation of getVisibleFactories: callback(null, factories).
visDone(g) == [g EXCEPT !.cb = Append(@, [err |-> "none", ei |-> 0, list |-> g.out])]

\* latch.resolve() inside a check's callback.
visResolve(g) ==
    LET r == [g EXCEPT !.latch = LatchResolve(@)]
    IN  IF LatchFires(g.latch) # <<>> THEN visDone(r) ELSE r

\* The error branch of both check callbacks: the first error is called
\* back, the latch is left alone.
\* (visErrorUnguarded: without the calledBack guard.)
visErrorUnguarded(g, i, what) ==
    [g EXCEPT !.cb = Append(@, [err |-> what, ei |-> i, list |-> <<>>]),
              !.calledBack = TRUE,
              !.errs = Append(@, [err |-> what, ei |-> i]),
              !.check[i] = "done"]
visError(g, i, what) ==
    [g EXCEPT !.cb = IF g.calledBack THEN @
                     ELSE Append(@, [err |-> what, ei |-> i, list |-> <<>>]),
              !.calledBack = TRUE,
              !.errs = Append(@, [err |-> what, ei |-> i]),
              !.check[i] = "done"]

\* The success branch of the isVisibleFor callback for snapshot entry i.
\* (visibleReplyPushesAll: the factory is pushed whatever the answer.)
visibleReplyPushesAll(g, i, visible) ==
    visResolve([g EXCEPT !.out = Append(@, g.snap[i].inst),
                         !.vis = IF visible THEN @ \cup {i} ELSE @,
                         !.check[i] = "done"])
visibleReply(g, i, visible) ==
    visResolve([g EXCEPT !.out = IF visible THEN Append(@, g.snap[i].inst) ELSE @,
                         !.vis = IF visible THEN @ \cup {i} ELSE @,
                         !.check[i] = "done"])

\* The forEach of getVisibleFactories over the loaded list: unless an error
\* was called back already, latch.add() and getUser(user, ...) per factory.
RECURSIVE VisEach(_, _)
VisEach(g, i) ==
    IF i > Len(g.snap) THEN g
    ELSE IF g.calledBack THEN VisEach(g, i + 1)
    ELSE VisEach([g EXCEPT !.latch = LatchAdd(@, 1), !.check[i] = "user"], i + 1)

\* getVisibleFactories(user, callback).
getVisibleFactories ==
    /\ gv.st = "idle"
    /\ LET g0 == [VisIdle EXCEPT !.st = "run", !.snap = factories,
                                 !.check = [i \in 1..Len(factories) |-> "skip"]]
           g1 == VisEach(g0, 1)
       IN  gv' = [g1 EXCEPT !.latch = LatchThen(@, "done")]
    /\ UNCHANGED <<storeGame, factories, nextFac, fmCache, mutex, works,
                   workStarts, caller, ld, loadCalls, errInjected>>
    /\ UNCHANGED <<latchVars, gumVars, restVars>>

\* getUser calls back for snapshot entry i: an error, no live user, or one.
getUserReply(i, out) ==
    /\ gv.st = "run"
    /\ i \in 1..Len(gv.snap)
    /\ gv.check[i] = "user"
    /\ gv' = CASE out = "err" -> visError(gv, i, "user")
               [] out = "null" -> visResolve([gv EXCEPT !.check[i] = "done"])
               [] out = "live" -> [gv EXCEPT !.check[i] = "vis", !.live = @ \cup {i}]
    /\ UNCHANGED <<storeGame, factories, nextFac, fmCache, mutex, works,
                   workStarts, caller, ld, loadCalls, errInjected>>
    /\ UNCHANGED <<latchVars, gumVars, restVars>>

\* isVisibleFor calls back for snapshot entry i: an error, true or false.
isVisibleForReply(i, out) ==
    /\ gv.st = "run"
    /\ i \in 1..Len(gv.snap)
    /\ gv.check[i] = "vis"
    /\ gv' = CASE out = "err" -> visError(gv, i, "vis")
               [] out = "true" -> visibleReply(gv, i, TRUE)
               [] out = "false" -> visibleReply(gv, i, FALSE)
    /\ UNCHANGED <<storeGame, factories, nextFac, fmCache, mutex, works,
                   workStarts, caller, ld, loadCalls, errInjected>>
    /\ UNCHANGED <<latchVars, gumVars, restVars>>

\* The loop tick that runs the continuation registered on an idle latch.
visTick ==
    /\ gv.st = "run"
    /\ gv.latch.defer # <<>>
    /\ gv' = visDone([gv EXCEPT !.latch = LatchTick(@)])
    /\ UNCHANGED <<storeGame, factories, nextFac, fmCache, mutex, works,
                   workStarts, caller, ld, loadCalls, errInjected>>
    /\ UNCHANGED <<latchVars, gumVars, restVars>>

NextFM ==
    \/ \E c \in Callers, f \in FactoryIds : getFactory(c, f)
    \/ \E w \in works, fails \in BOOLEAN : isValidFactoryIdReply(w, fails)
    \/ \E w \in works, fails \in BOOLEAN : getGameReply(w, fails)
    \/ load
    \/ \E fails \in BOOLEAN : getFactoriesReply(fails)
    \/ loadTick
    \/ getVisibleFactories
    \/ \E i \in 1..Len(gv.snap), out \in {"err", "null", "live"} : getUserReply(i, out)
    \/ \E i \in 1..Len(gv.snap), out \in {"err", "true", "false"} : isVisibleForReply(i, out)
    \/ visTick


\* --------------------------------------------------- strings and numbers
\* A string is a sequence of one-character strings. NaN stands for the
\* not-a-number value parseInt yields.
NaN == 0 - 1
DigitChars == <<"0", "1", "2", "3", "4", "5", "6", "7", "8", "9">>
IsDigit(ch) == \E d \in 1..10 : DigitChars[d] = ch
DigitOf(ch) == (CHOOSE d \in 1..10 : DigitChars[d] = ch) - 1

\* Number.prototype.toString() of a non-negative integer.
RECURSIVE IntToStr(_)
IntToStr(n) ==
    IF n < 10 THEN <<DigitChars[n + 1]>>
    ELSE IntToStr(n \div 10) \o <<DigitChars[(n % 10) + 1]>>

\* parseInt(s, 10): the value of the leading run of digits, NaN without one.
RECURSIVE ParseDigits(_, _)
ParseDigits(s, acc) ==
    IF s = <<>> \/ ~IsDigit(Head(s)) THEN acc
    ELSE ParseDigits(Tail(s), 10 * acc + DigitOf(Head(s)))

parseInt(s) == IF s = <<>> \/ ~IsDigit(Head(s)) THEN NaN ELSE ParseDigits(s, 0)

\* String.prototype.split(sep): the pieces between the separators.
RECURSIVE SplitFrom(_, _, _)
SplitFrom(s, sep, cur) ==
    IF s = <<>> THEN <<cur>>
    ELSE IF Head(s) = sep THEN <<cur>> \o SplitFrom(Tail(s), sep, <<>>)
    ELSE SplitFrom(Tail(s), sep, Append(cur, Head(s)))

split(s, sep) == SplitFrom(s, sep, <<>>)

\* parts[i] of a JavaScript array (1-based here); undefined reads as the
\* empty string, which parseInt turns into NaN and === '1' into false.
Part(parts, i) == IF i <= Len(parts) THEN parts[i] ELSE <<>>

\* Strings joined with a separator.
RECURSIVE JoinWith(_, _)
JoinWith(parts, sep) ==
    IF parts = <<>> THEN <<>>
    ELSE IF Len(parts) = 1 THEN parts[1]
    ELSE parts[1] \o <<sep>> \o JoinWith(Tail(parts), sep)

BoolNum(b) == IF b THEN 1 ELSE 0
BoolStr(b) == IF b THEN <<"1">> ELSE <<"0">>

\* --------------------------------------------------- GameUserModelManager
\* A row of the game-user collection as the queries project it: the row's
\* _id, its team_id (0: null) and the two role flags.
Row(id, team, special, spectator) ==
    [id |-> id, team |-> team, special |-> special, spectator |-> spectator]

\* Values called back are sequences of numbers: <<0>>/<<1>> for a boolean,
\* <<n>> for a count, the six counters of a GameUsersState, the four flags
\* of a UserGameState, <<wrapper, id>> for a model instance, <<>> for null.
ValNull == <<>>

\* isValidId: the value called back from the fast store and from the rows.
isValidIdHit(result) == <<BoolNum(result = <<"1">>)>>
isValidIdValue(data) == <<BoolNum(Len(data) > 0)>>
isValidIdStore(data) == IntToStr(BoolNum(Len(data) > 0))

\* getGameUserCount and getTeamUserCount.
countHit(result) == <<parseInt(result)>>
countValue(data) == <<Len(data)>>
countStore(data) == IntToStr(Len(data))

\* getGameUsersCount: the counters, filled from the fast-store record ...
gameUsersCountHit(result) ==
    LET resultSplitted == split(result, ";")
    IN  [i \in 1..6 |-> parseInt(Part(resultSplitted, i))]

\* ... and counted over the rows: total, totalAccepted, players, specials,
\* spectators, requested.
\* (gameUsersCountFromByTeam: a row without team counts as requested,
\* whatever its flags.)
RECURSIVE gameUsersCountFromByTeam(_, _)
gameUsersCountFromByTeam(data, st) ==
    IF data = <<>> THEN st
    ELSE LET gameUser == Head(data)
             isRequested == gameUser.team = 0
         IN  gameUsersCountFromByTeam(Tail(data),
                <<st[1] + 1,
                  st[2] + (IF isRequested THEN 0 ELSE 1),
                  st[3] + (IF gameUser.team # 0 THEN 1 ELSE 0),
                  st[4] + BoolNum(gameUser.special),
                  st[5] + BoolNum(gameUser.spectator),
                  st[6] + (IF isRequested THEN 1 ELSE 0)>>)
RECURSIVE gameUsersCountFrom(_, _)
gameUsersCountFrom(data, st) ==
    IF data = <<>> THEN st
    ELSE LET gameUser == Head(data)
             isRequested == gameUser.team = 0 /\ ~gameUser.special /\ ~gameUser.spectator
         IN  gameUsersCountFrom(Tail(data),
                <<st[1] + 1,
                  st[2] + (IF isRequested THEN 0 ELSE 1),
                  st[3] + (IF gameUser.team # 0 THEN 1 ELSE 0),
                  st[4] + BoolNum(gameUser.special),
                  st[5] + BoolNum(gameUser.spectator),
                  st[6] + (IF isRequested THEN 1 ELSE 0)>>)

gameUsersCountValue(data) == gameUsersCountFrom(data, <<0, 0, 0, 0, 0, 0>>)
\* (gameUsersCountStoreComma: the counters are joined with commas.)
gameUsersCountStoreComma(data) ==
    LET o == gameUsersCountValue(data)
    IN  JoinWith([i \in 1..6 |-> IntToStr(o[i])], ",")
gameUsersCountStore(data) ==
    LET o == gameUsersCountValue(data)
    IN  JoinWith([i \in 1..6 |-> IntToStr(o[i])], ";")

\* getUserGameState: player, special, spectator, requested, from the
\* fast-store record ...
userGameStateHit(result) ==
    LET dataSplitted == split(result, ";")
    IN  [i \in 1..4 |-> BoolNum(Part(dataSplitted, i) = <<"1">>)]

\* ... and from the rows: every row overwrites the three flags, and
\* requested is set when a row was found and none of the flags holds.
userGameStateValue(data) ==
    IF data = <<>> THEN <<0, 0, 0, 0>>
    ELSE LET gameUser == data[Len(data)]
             player == gameUser.team # 0
         IN  <<BoolNum(player), BoolNum(gameUser.special), BoolNum(gameUser.spectator),
               BoolNum(~player /\ ~gameUser.special /\ ~gameUser.spectator)>>

\* (userGameStateStoreBool: the flags are written as true and false.)
userGameStateStoreBool(data) ==
    LET o == userGameStateValue(data)
    IN  JoinWith([i \in 1..4 |-> IF o[i] = 1 THEN <<"t", "r", "u", "e">>
                                 ELSE <<"f", "a", "l", "s", "e">>], ";")
userGameStateStore(data) ==
    LET o == userGameStateValue(data)
    IN  JoinWith([i \in 1..4 |-> BoolStr(o[i] = 1)], ";")

\* getGameUser: the string stored is the row's _id, or '' without a row.
gameUserStore(data) == IF Len(data) > 0 THEN IntToStr(data[1].id) ELSE <<>>

\* _instanceManager.create(id) as the manager's callbacks use it: the cache
\* after the call and the wrapper it returned.
\* (newGameUserModel: a fresh wrapper is constructed beside the cache.)
newGameUserModel(cache, id) ==
    [cache |-> [cache EXCEPT !.next = @ + 1], obj |-> cache.next]
createGameUser(cache, id) ==
    [cache |-> InstanceCreate(cache, id), obj |-> InstanceOf(cache, id)]

ReadOps == {"isValidId", "getUserById", "getGameUserCount", "getGameUsersCount",
            "getUserGameState", "getGameUser", "getTeamUserCount"}

\* The operations whose authoritative query is the continuation of the
\* latch; isValidId (and getUserById through it) issues the query at once.
LatchedOps == ReadOps \ {"isValidId", "getUserById"}

Games == {1}
Users == {1}
Teams == {1}
GameUserIds == 1..NumGameUsers
Slots == 1..NumSlots

\* Filter options of getGameUserCount: "u" (undefined), "t" or "f" for
\* players, spectators, specials and requested; user 0 is undefined.
Options(players, spectators, specials, requested, user) ==
    [players |-> players, spectators |-> spectators, specials |-> specials,
     requested |-> requested, user |-> user]

NoOptions == Options("u", "u", "u", "u", 0)

\* The option sets the read calls of SpecGUM pass.
CallOptions == {NoOptions, Options("t", "u", "u", "t", 0), Options("u", "f", "u", "f", 1)}

\* requested = true overrides the three role constraints to false.
\* (overrideRequestedKeeps: the options are used as passed.)
overrideRequestedKeeps(o) == o
overrideRequested(o) ==
    IF o.requested = "t"
    THEN [o EXCEPT !.players = "f", !.spectators = "f", !.specials = "f"]
    ELSE o

TriChar(t) == IF t = "u" THEN "?" ELSE IF t = "t" THEN "1" ELSE "0"

\* The option part of the getGameUserCount cache key.
\* (optionsKeyNoUser: the user is left out of the key.)
optionsKeyNoUser(options) ==
    LET o == overrideRequested(options)
    IN  <<TriChar(o.players), ",", TriChar(o.spectators), ",", TriChar(o.specials),
          ",", TriChar(o.requested)>>
optionsKey(options) ==
    LET o == overrideRequested(options)
    IN  <<TriChar(o.players), ",", TriChar(o.spectators), ",", TriChar(o.specials),
          ",", TriChar(o.requested)>>
        \o (IF o.user # 0 THEN <<":", "u", "s", "e", "r", ",">> \o IntToStr(o.user) ELSE <<>>)

\* The Redis key of a read: the operation's name, its ID arguments and the
\* option part, all under REDIS_KEY_ROOT.
CacheKey(name, a, b, o) == [name |-> name, a |-> a, b |-> b, o |-> o]

redisCacheKey(op, a, b, options) ==
    CASE op \in {"isValidId", "getUserById"} -> CacheKey("exists", a, 0, <<>>)
      [] op = "getGameUserCount" -> CacheKey("getGamePlayerCount", a, 0, optionsKey(options))
      [] op = "getGameUsersCount" -> CacheKey("getGameUsersCount", a, 0, <<>>)
      [] op = "getUserGameState" -> CacheKey("getUserGameState", a, b, <<>>)
      [] op = "getGameUser" -> CacheKey("getGameUser", a, b, <<>>)
      [] op = "getTeamUserCount" -> CacheKey("getTeamUserCount", a, 0, <<>>)

\* The ID arguments a read may be called with.
ArgsOf(op) ==
    CASE op \in {"isValidId", "getUserById"} -> GameUserIds \X {0}
      [] op \in {"getGameUserCount", "getGameUsersCount"} -> Games \X {0}
      [] op \in {"getUserGameState", "getGameUser"} -> Games \X Users
      [] op = "getTeamUserCount" -> Teams \X {0}

SeqsUpTo(S, n) == UNION {[1..k -> S] : k \in 0..n}

\* The rows SpecGUM's store answers the attribute queries with: a user who
\* requested to join, a player, a special spectator.
ReplyRows == {Row(0, 0, FALSE, FALSE), Row(0, 1, FALSE, FALSE), Row(0, 0, TRUE, TRUE)}

\* The row lists the authoritative store may answer a read's query with.
DataFor(op, a) ==
    CASE op \in {"isValidId", "getUserById"} -> {<<>>, <<Row(a, 0, FALSE, FALSE)>>}
      [] op \in {"getGameUserCount", "getTeamUserCount"}
            -> SeqsUpTo({Row(0, 0, FALSE, FALSE)}, MaxRows)
      [] op \in {"getGameUsersCount", "getUserGameState"} -> SeqsUpTo(ReplyRows, MaxRows)
      [] op = "getGameUser"
            -> {<<>>} \cup {<<Row(i, 0, FALSE, FALSE)>> : i \in GameUserIds}

\* A fast-store reply: nil when the key is absent, else the stored string,
\* the number of flushCache() calls made before the authoritative query it
\* was computed from was issued, and the value that query's read called back
\* (for the isValidId key: isValidId's result). expired: the key is absent
\* because its record reached its TTL.
Entry(val, tag, orig) ==
    [nil |-> FALSE, val |-> val, tag |-> tag, orig |-> orig, expired |-> FALSE]
NilEntry == [nil |-> TRUE, val |-> <<>>, tag |-> 0, orig |-> <<>>, expired |-> FALSE]
ExpiredEntry == [NilEntry EXCEPT !.expired = TRUE]
RedisGet(store, key) == store[key]

\* The option sets a read may be called with.
OptionsOf(op) == IF op = "getGameUserCount" THEN CallOptions ELSE {NoOptions}

\* Every key a read of SpecGUM may use.
AllKeys ==
    UNION {{redisCacheKey(op, args[1], args[2], o) : args \in ArgsOf(op), o \in OptionsOf(op)} :
           op \in ReadOps}

\* The fast store without any key under REDIS_KEY_ROOT.
RedisEmpty == [k \in AllKeys |-> NilEntry]

\* The hit test of the get callbacks: undefined and null are misses, and
\* for getGameUser so is the empty string.
\* (isMissNullOnly: the empty string counts as a hit.)
isMissNullOnly(op, e) == e.nil
isMiss(op, e) == e.nil \/ (op = "getGameUser" /\ e.val = <<>>)

ReadIdle ==
    [st |-> "idle", op |-> "none", a |-> 0, b |-> 0, key |-> CacheKey("none", 0, 0, <<>>),
     latch |-> LatchNew, getPend |-> FALSE, got |-> NilEntry, dbPend |-> FALSE,
     cb |-> <<>>, getErr |-> FALSE, dbErr |-> FALSE, dbOk |-> FALSE, data |-> <<>>,
     startDone |-> 0, hitTag |-> NaN, hitVal |-> <<>>, qTag |-> 0,
     get |-> "none", setex |-> "none"]

\* had: the keys that held a record when flushCache() was called.
FlushIdle == [st |-> "idle", latch |-> LatchNew, cb |-> <<>>, had |-> {}]

\* The fast store outlives the process: at construction it is empty, or it
\* still holds a record an earlier run wrote (here: the user count of the
\* team).
RedisStarts ==
    {RedisEmpty,
     [RedisEmpty EXCEPT ![redisCacheKey("getTeamUserCount", 1, 0, NoOptions)] =
                            Entry(countStore(<<Row(0, 0, FALSE, FALSE)>>), 0,
                                  countValue(<<Row(0, 0, FALSE, FALSE)>>))]}

\* What create() may be handed: the ID of a row, or what a fast-store
\* record without digits parses to.
WrappableIds == GameUserIds \cup {NaN}

GUMConstructed ==
    /\ guCache = InstanceNew(WrappableIds)
    /\ read = [s \in Slots |-> ReadIdle]
    /\ readCalls = 0
    /\ flush = FlushIdle
    /\ flushCalls = 0
    /\ flushDone = 0
    /\ created = {}

InitGUM == redis \in RedisStarts /\ GUMConstructed

\* What a callback is called with: the error ("none": null) and the value.
CbEntry(err, val) == [err |-> err, val |-> val]

\* An answer: the value called back, the identity cache afterwards and the
\* wrappers create() returned on the way.
Answer(val, cache) == [val |-> val, cache |-> cache, made |-> {}]
AnswerModel(c, id) == [val |-> <<c.obj, id>>, cache |-> c.cache, made |-> {[id |-> id, obj |-> c.obj]}]

\* getUserById's callback on isValidId's result.
userByIdAnswer(valid, id, cache) ==
    IF valid = <<1>> THEN AnswerModel(createGameUser(cache, id), id)
    ELSE Answer(ValNull, cache)

\* The value a read calls back on a fast-store hit.
HitAnswer(r, cache) ==
    CASE r.op = "isValidId" -> Answer(isValidIdHit(r.got.val), cache)
      [] r.op = "getUserById" -> userByIdAnswer(isValidIdHit(r.got.val), r.a, cache)
      [] r.op \in {"getGameUserCount", "getTeamUserCount"} -> Answer(countHit(r.got.val), cache)
      [] r.op = "getGameUsersCount" -> Answer(gameUsersCountHit(r.got.val), cache)
      [] r.op = "getUserGameState" -> Answer(userGameStateHit(r.got.val), cache)
      [] r.op = "getGameUser"
            -> AnswerModel(createGameUser(cache, parseInt(r.got.val)), parseInt(r.got.val))

\* The value a read calls back from the rows of the authoritative store.
DbAnswer(r, data, cache) ==
    CASE r.op = "isValidId" -> Answer(isValidIdValue(data), cache)
      [] r.op = "getUserById" -> userByIdAnswer(isValidIdValue(data), r.a, cache)
      [] r.op \in {"getGameUserCount", "getTeamUserCount"} -> Answer(countValue(data), cache)
      [] r.op = "getGameUsersCount" -> Answer(gameUsersCountValue(data), cache)
      [] r.op = "getUserGameState" -> Answer(userGameStateValue(data), cache)
      [] r.op = "getGameUser"
            -> IF Len(data) > 0 THEN AnswerModel(createGameUser(cache, data[1].id), data[1].id)
               ELSE Answer(ValNull, cache)

\* The string a read writes back to the fast store.
StoreString(op, data) ==
    CASE op \in {"isValidId", "getUserById"} -> isValidIdStore(data)
      [] op \in {"getGameUserCount", "getTeamUserCount"} -> countStore(data)
      [] op = "getGameUsersCount" -> gameUsersCountStore(data)
      [] op = "getUserGameState" -> userGameStateStore(data)
      [] op = "getGameUser" -> gameUserStore(data)

\* The value the read that writes StoreString(op, data) has called back,
\* without the wrapper's serial (for getUserById: isValidId's result).
StoredValue(op, data) ==
    CASE op \in {"isValidId", "getUserById"} -> isValidIdValue(data)
      [] op \in {"getGameUserCount", "getTeamUserCount"} -> countValue(data)
      [] op = "getGameUsersCount" -> gameUsersCountValue(data)
      [] op = "getUserGameState" -> userGameStateValue(data)
      [] op = "getGameUser" -> IF Len(data) > 0 THEN <<data[1].id>> ELSE ValNull

\* Nothing of the read in slot s is still to come.
ReadOver(r) == ~r.getPend /\ ~r.dbPend /\ r.latch.defer = <<>>

\* The authoritative query of a read is issued.
issueQuery(r) == [r EXCEPT !.dbPend = TRUE, !.qTag = flushCalls]

\* The fast-store stage of a read: when isReady(), latch.add() and get(key);
\* then the query is registered as the latch's continuation, or, for
\* isValidId, issued at once.
\* (fastStageUngated: the get is issued whatever isReady() says.)
fastStageUngated(r, ready) ==
    LET l == LatchAdd(r.latch, 1)
        g == [r EXCEPT !.getPend = TRUE, !.got = RedisGet(redis, r.key),
                       !.get = IF ready THEN "issued" ELSE "skip"]
    IN  IF r.op \in LatchedOps
        THEN [g EXCEPT !.latch = LatchThen(l, "query")]
        ELSE issueQuery([g EXCEPT !.latch = l])
fastStage(r, ready) ==
    LET l == IF ready THEN LatchAdd(r.latch, 1) ELSE r.latch
        g == IF ready
             THEN [r EXCEPT !.getPend = TRUE, !.got = RedisGet(redis, r.key), !.get = "issued"]
             ELSE [r EXCEPT !.get = "skip"]
    IN  IF r.op \in LatchedOps
        THEN [g EXCEPT !.latch = LatchThen(l, "query")]
        ELSE issueQuery([g EXCEPT !.latch = l])

\* A read operation is called with well-formed arguments.
readCall(s, op, args, options, ready) ==
    /\ readCalls < MaxReadCalls
    /\ ReadOver(read[s])
    /\ readCalls' = readCalls + 1
    /\ read' = [read EXCEPT ![s] =
            fastStage([ReadIdle EXCEPT
                         !.st = "run", !.op = op, !.a = args[1], !.b = args[2],
                         !.key = redisCacheKey(op, args[1], args[2], options),
                         !.startDone = flushDone],
                      ready)]
    /\ UNCHANGED <<redis, guCache, flush, flushCalls, flushDone, created>>
    /\ UNCHANGED <<latchVars, fmVars, restVars>>

\* The loop tick that runs a continuation registered on an idle latch.
readTick(s) ==
    /\ read[s].latch.defer # <<>>
    /\ read' = [read EXCEPT ![s] = issueQuery([@ EXCEPT !.latch = LatchTick(@)])]
    /\ UNCHANGED <<redis, guCache, readCalls, flush, flushCalls, flushDone, created>>
    /\ UNCHANGED <<latchVars, fmVars, restVars>>

\* latch.resolve() in the get callback: the continuation, if it fires,
\* issues the authoritative query.
readResolve(r) ==
    LET x == [r EXCEPT !.latch = LatchResolve(@)]
    IN  IF LatchFires(r.latch) # <<>> THEN issueQuery(x) ELSE x

\* The get callback on an error: a warning only.
\* (getErrorFatal: the error is called back and the latch left alone.)
getErrorFatal(r) ==
    [r EXCEPT !.getPend = FALSE, !.getErr = TRUE, !.cb = Append(@, CbEntry("redis", ValNull))]
getError(r) == readResolve([r EXCEPT !.getPend = FALSE, !.getErr = TRUE])

\* The fast store answers the get of the read in slot s.
redisGetReply(s, fails) ==
    /\ read[s].getPend
    /\ LET r == read[s]
           ans == HitAnswer(r, guCache)
       IN  IF fails
           THEN /\ read' = [read EXCEPT ![s] = getError(r)]
                /\ UNCHANGED <<guCache, created>>
           ELSE IF isMiss(r.op, r.got)
           THEN /\ read' = [read EXCEPT ![s] = readResolve([r EXCEPT !.getPend = FALSE])]
                /\ UNCHANGED <<guCache, created>>
           ELSE /\ read' = [read EXCEPT ![s] =
                        [r EXCEPT !.getPend = FALSE, !.hitTag = r.got.tag,
                                  !.hitVal = ans.val,
                                  !.cb = Append(@, CbEntry("none", ans.val))]]
                /\ guCache' = ans.cache
                /\ created' = created \cup {[id |-> m.id, obj |-> m.obj, epoch |-> flushCalls, via |-> r.op] :
                                                m \in ans.made}
    /\ UNCHANGED <<redis, readCalls, flush, flushCalls, flushDone>>
    /\ UNCHANGED <<latchVars, fmVars, restVars>>

\* The query callback on an error: callback(new Error(err), null) and
\* return.
\* (dbErrorRetried: the error is called back and the query issued again.)
dbErrorRetried(r) ==
    [r EXCEPT !.dbErr = TRUE, !.cb = Append(@, CbEntry("db", ValNull))]
dbError(r) ==
    [r EXCEPT !.dbPend = FALSE, !.dbErr = TRUE, !.cb = Append(@, CbEntry("db", ValNull))]

\* The write-back of a read: skipped when isReady() is false, else setex is
\* issued and its callback only logs an error.
\* (setexErrorCalledBack: the error of the setex is called back.)
setexErrorCalledBack(r, ready, writeFails) ==
    IF ~ready THEN [r EXCEPT !.setex = "skip"]
    ELSE IF writeFails
    THEN [r EXCEPT !.setex = "failed", !.cb = Append(@, CbEntry("redis", ValNull))]
    ELSE [r EXCEPT !.setex = "ok"]
setexDone(r, ready, writeFails) ==
    [r EXCEPT !.setex = IF ~ready THEN "skip" ELSE IF writeFails THEN "failed" ELSE "ok"]

\* The authoritative store answers the query of the read in slot s: with
\* an error, or with rows. The value is called back and, when isReady(),
\* written to the fast store (the write itself may fail).
databaseReply(s, fails, data, ready, writeFails) ==
    /\ read[s].dbPend
    /\ LET r == read[s]
           ans == DbAnswer(r, data, guCache)
       IN  IF fails
           THEN /\ read' = [read EXCEPT ![s] = dbError(r)]
                /\ UNCHANGED <<redis, guCache, created>>
           ELSE /\ data \in DataFor(r.op, r.a)
                /\ read' = [read EXCEPT ![s] =
                        setexDone([r EXCEPT !.dbPend = FALSE, !.dbOk = TRUE, !.data = data,
                                            !.cb = Append(@, CbEntry("none", ans.val))],
                                  ready, writeFails)]
                /\ guCache' = ans.cache
                /\ created' = created \cup {[id |-> m.id, obj |-> m.obj, epoch |-> flushCalls, via |-> r.op] :
                                                m \in ans.made}
                /\ redis' = IF ready /\ ~writeFails
                            THEN [redis EXCEPT ![r.key] =
                                        Entry(StoreString(r.op, data), r.qTag,
                                              StoredValue(r.op, data))]
                            ELSE redis
    /\ UNCHANGED <<readCalls, flush, flushCalls, flushDone>>
    /\ UNCHANGED <<latchVars, fmVars, restVars>>

\* A fast-store record reaches its TTL.
redisExpire(key) ==
    /\ ~redis[key].nil
    /\ redis' = [redis EXCEPT ![key] = ExpiredEntry]
    /\ UNCHANGED <<guCache, read, readCalls, flush, flushCalls, flushDone, created>>
    /\ UNCHANGED <<latchVars, fmVars, restVars>>

\* flushCache(callback): the wildcard delete is issued under the latch, the
\* identity cache is cleared with force, the continuation is registered.
flushCache ==
    /\ flushCalls < MaxFlushCalls
    /\ flush.st \in {"idle", "done"}
    /\ flushCalls' = flushCalls + 1
    /\ flush' = [st |-> "issued",
                 latch |-> LatchThen(LatchAdd(LatchNew, 1), "done"),
                 cb |-> <<>>,
                 had |-> {k \in AllKeys : ~redis[k].nil}]
    /\ guCache' = InstanceClear(guCache)
    /\ UNCHANGED <<redis, read, readCalls, flushDone, created>>
    /\ UNCHANGED <<latchVars, fmVars, restVars>>

\* The fast store executes the wildcard delete: every key under
\* 'model:gameuser:*' goes.
flushKeysApply ==
    /\ flush.st = "issued"
    /\ flush' = [flush EXCEPT !.st = "applied"]
    /\ redis' = RedisEmpty
    /\ UNCHANGED <<guCache, read, readCalls, flushCalls, flushDone, created>>
    /\ UNCHANGED <<latchVars, fmVars, restVars>>

\* flushKeys calls back: with an error (the delete did not run), or after
\* the delete.
\* (flushKeysReplyNoReturn: the error branch falls through to latch.resolve().)
flushKeysReplyNoReturn(fails) ==
    /\ IF fails THEN flush.st = "issued" ELSE flush.st = "applied"
    /\ flush' = [flush EXCEPT !.st = "done",
                              !.latch = LatchResolve(@),
                              !.cb = (IF fails THEN <<"err">> ELSE <<>>)
                                     \o (IF LatchFires(flush.latch) # <<>>
                                         THEN <<"null">> ELSE <<>>)]
    /\ flushDone' = IF fails THEN flushDone ELSE flushDone + 1
    /\ UNCHANGED <<redis, guCache, read, readCalls, flushCalls, created>>
    /\ UNCHANGED <<latchVars, fmVars, restVars>>
flushKeysReply(fails) ==
    /\ IF fails THEN flush.st = "issued" ELSE flush.st = "applied"
    /\ flush' = IF fails
                THEN [flush EXCEPT !.st = "done", !.cb = Append(@, "err")]
                ELSE [flush EXCEPT !.st = "done",
                                   !.latch = LatchResolve(@),
                                   !.cb = IF LatchFires(flush.latch) # <<>>
                                          THEN Append(@, "null") ELSE @]
    /\ flushDone' = IF fails THEN flushDone ELSE flushDone + 1
    /\ UNCHANGED <<redis, guCache, read, readCalls, flushCalls, created>>
    /\ UNCHANGED <<latchVars, fmVars, restVars>>

NextGUM ==
    \/ \E s \in Slots, op \in ReadOps, ready \in BOOLEAN :
          \E args \in ArgsOf(op) :
             \E options \in OptionsOf(op) :
                readCall(s, op, args, options, ready)
    \/ \E s \in Slots : readTick(s)
    \/ \E s \in Slots, fails \in BOOLEAN : redisGetReply(s, fails)
    \/ \E s \in Slots, fails \in BOOLEAN, ready \in BOOLEAN, writeFails \in BOOLEAN :
          \E data \in (IF read[s].dbPend THEN DataFor(read[s].op, read[s].a) ELSE {}) :
             databaseReply(s, fails, data, ready, writeFails)
    \/ \E key \in AllKeys : redisExpire(key)
    \/ flushCache
    \/ flushKeysApply
    \/ \E fails \in BOOLEAN : flushKeysReply(fails)

\* ------------------------------------------------------------------ specs
\* The latch driver at rest (only SpecLatch uses it).
\* ------------------------------------------------- calls with malformed IDs
\* A malformed ID (one that is no ObjectId and that ObjectId.isValid
\* rejects; for the reads also null and undefined) is written 0.
MalformedId == 0

\* getFactory and loadFactory with a malformed ID, by external call c:
\* callback(new Error('Invalid factory ID')) and return.
\* (malformedIdLoads: the call is left waiting for a load.)
malformedIdLoads(c, via) ==
    [CallerIdle EXCEPT !.st = "wait", !.f = MalformedId, !.via = via]
malformedIdCall(c, via) ==
    [CallerIdle EXCEPT !.st = "done", !.f = MalformedId, !.via = via,
                       !.res = ResErr("invalid", MalformedId)]

getFactoryMalformed(c) ==
    /\ caller[c].st = "idle"
    /\ caller' = [caller EXCEPT ![c] = malformedIdCall(c, "getFactory")]
    /\ UNCHANGED <<storeGame, factories, nextFac, fmCache, mutex, works, workStarts,
                   ld, loadCalls, gv, errInjected>>
    /\ UNCHANGED <<latchVars, gumVars, restVars>>

loadFactoryMalformed(c) ==
    /\ caller[c].st = "idle"
    /\ caller' = [caller EXCEPT ![c] = malformedIdCall(c, "loadFactory")]
    /\ UNCHANGED <<storeGame, factories, nextFac, fmCache, mutex, works, workStarts,
                   ld, loadCalls, gv, errInjected>>
    /\ UNCHANGED <<latchVars, gumVars, restVars>>

\* The reads that validate their ID arguments, and the arguments that fail
\* the validation.
ValidatingOps == {"isValidId", "getUserById", "getGameUser"}
MalformedArgs(op) ==
    IF op = "getGameUser"
    THEN {<<MalformedId, u>> : u \in Users \cup {MalformedId}} \cup {<<g, MalformedId>> : g \in Games}
    ELSE {<<MalformedId, 0>>}

\* isValidId: callback(null, false); getUserById on it and getGameUser:
\* callback(null, null); and return.
readCallMalformed(s, op, args) ==
    /\ readCalls < MaxReadCalls
    /\ ReadOver(read[s])
    /\ readCalls' = readCalls + 1
    /\ read' = [read EXCEPT ![s] =
            [ReadIdle EXCEPT
                !.st = "run", !.op = op, !.a = args[1], !.b = args[2],
                !.startDone = flushDone,
                !.cb = <<CbEntry("none", IF op = "isValidId" THEN <<0>> ELSE ValNull)>>]]
    /\ UNCHANGED <<redis, guCache, flush, flushCalls, flushDone, created>>
    /\ UNCHANGED <<latchVars, fmVars, restVars>>

\* The managers called with well-formed and with malformed IDs.
NextInvalid ==
    \/ \E c \in Callers, f \in FactoryIds : getFactory(c, f)
    \/ \E w \in works, fails \in BOOLEAN : isValidFactoryIdReply(w, fails)
    \/ \E w \in works, fails \in BOOLEAN : getGameReply(w, fails)
    \/ \E c \in Callers : getFactoryMalformed(c)
    \/ \E c \in Callers : loadFactoryMalformed(c)
    \/ \E s \in Slots, op \in ValidatingOps :
          \E args \in MalformedArgs(op) : readCallMalformed(s, op, args)

\* ------------------------------------------ the deleteTeam route handler
\* The closure of router.post('/'): the latch it recycles through three
\* stages, the asynchronous calls in flight, the flags, and the responses
\* sent (next(err): "next", res.json: "invalid" or "ok"). ran, adds and
\* resolves count per stage the runs of its continuation and the add() and
\* resolve() calls made for it. deletedTeams is the closure's array, sent
\* the deletedTeams array of the 'ok' response, deleted the teams whose
\* team.delete called back without error.
Stages == 1..3

ChainIdle ==
    [st |-> "idle", teams |-> 0, latch |-> LatchNew, ops |-> {},
     calledBack |-> FALSE, cancelled |-> FALSE, isAdmin |-> FALSE, isHost |-> FALSE,
     ran |-> [n \in Stages |-> 0], adds |-> [n \in Stages |-> 0],
     resolves |-> [n \in Stages |-> 0], out |-> <<>>,
     deletedTeams |-> <<>>, sent |-> <<>>, deleted |-> {}]

chainAdd(ch, stage, n) ==
    [ch EXCEPT !.latch = LatchAdd(@, n), !.adds[stage] = @ + n]

chainCall(ch, calls) == [ch EXCEPT !.ops = @ \cup calls]

\* The last continuation: the OK response, unless cancelled.
teamsDeleted(ch) ==
    LET a == [ch EXCEPT !.ran[3] = @ + 1]
    IN  IF ~a.cancelled
        THEN [a EXCEPT !.out = Append(@, "ok"), !.sent = a.deletedTeams]
        ELSE a

\* The second continuation: identity(), the permission check, add(n), one
\* getTeamById per team ID, then().
\* (rolesFetchedUnchecked: without the permission check.)
rolesFetchedUnchecked(ch) ==
    LET a == [ch EXCEPT !.ran[2] = @ + 1, !.latch = LatchIdentity(@)]
        b == chainCall(chainAdd(a, 3, a.teams),
                       {[op |-> "getTeamById", t |-> t] : t \in 1..a.teams})
    IN  [b EXCEPT !.latch = LatchThen(@, 3), !.deletedTeams = <<>>]
rolesFetched(ch) ==
    LET a == [ch EXCEPT !.ran[2] = @ + 1, !.latch = LatchIdentity(@)]
    IN  IF ~a.isHost /\ ~a.isAdmin
        THEN [a EXCEPT !.out = Append(@, "next")]
        ELSE LET b == chainCall(chainAdd(a, 3, a.teams),
                                {[op |-> "getTeamById", t |-> t] : t \in 1..a.teams})
             IN  [b EXCEPT !.latch = LatchThen(@, 3), !.deletedTeams = <<>>]

\* The first continuation: identity(), add() and isAdmin, add() and
\* getUser, then().
\* (gameFetchedOneAdd: one add() for the two calls.)
gameFetchedOneAdd(ch) ==
    LET a == [ch EXCEPT !.ran[1] = @ + 1, !.latch = LatchIdentity(@)]
        b == chainCall(chainAdd(a, 2, 1), {[op |-> "isAdmin", t |-> 0]})
        c == chainCall(b, {[op |-> "getUser", t |-> 0]})
    IN  [c EXCEPT !.latch = LatchThen(@, 2)]
gameFetched(ch) ==
    LET a == [ch EXCEPT !.ran[1] = @ + 1, !.latch = LatchIdentity(@)]
        b == chainCall(chainAdd(a, 2, 1), {[op |-> "isAdmin", t |-> 0]})
        c == chainCall(chainAdd(b, 2, 1), {[op |-> "getUser", t |-> 0]})
    IN  [c EXCEPT !.latch = LatchThen(@, 2)]

chainCont(ch, c) ==
    CASE c = 1 -> gameFetched(ch)
      [] c = 2 -> rolesFetched(ch)
      [] c = 3 -> teamsDeleted(ch)

RECURSIVE chainRun(_, _)
chainRun(ch, fired) ==
    IF fired = <<>> THEN ch ELSE chainRun(chainCont(ch, Head(fired)), Tail(fired))

\* latch.resolve() in a callback of the given stage: the continuations it
\* fires run inside the call.
chainResolve(ch, stage) ==
    chainRun([ch EXCEPT !.latch = LatchResolve(@), !.resolves[stage] = @ + 1],
             LatchFires(ch.latch))

\* The callback of call o is entered.
chainReturn(ch, o) == [ch EXCEPT !.ops = @ \ {o}]

\* if(!flag) next(err); flag = true, with calledBack and with cancelled.
chainFail(ch) ==
    [ch EXCEPT !.out = IF ch.calledBack THEN @ ELSE Append(@, "next"),
               !.calledBack = TRUE]
chainCancel(ch) ==
    [ch EXCEPT !.out = IF ch.cancelled THEN @ ELSE Append(@, "next"),
               !.cancelled = TRUE]

\* POST without a valid session, or without a data object: next(err).
postRefused(valid) ==
    /\ chain.st = "idle"
    /\ chain' = [ChainIdle EXCEPT !.st = IF valid THEN "nodata" ELSE "nosession",
                                  !.out = <<"next">>]
    /\ UNCHANGED routeRest

\* POST with a valid session and n team IDs: add(), getGameById, then().
postDeleteTeam(n) ==
    /\ chain.st = "idle"
    /\ chain' = LET a == chainCall(chainAdd([ChainIdle EXCEPT !.st = "run", !.teams = n], 1, 1),
                                   {[op |-> "getGameById", t |-> 0]})
                IN  [a EXCEPT !.latch = LatchThen(@, 1)]
    /\ UNCHANGED routeRest

getGameByIdReply(out) ==
    LET o == [op |-> "getGameById", t |-> 0]
        ch == chainReturn(chain, o)
    IN  /\ o \in chain.ops
        /\ chain' = CASE out = "err" -> [ch EXCEPT !.out = Append(@, "next")]
                      [] out = "null" -> [ch EXCEPT !.out = Append(@, "invalid")]
                      [] out = "game" -> chainResolve(ch, 1)
        /\ UNCHANGED routeRest

isAdminReply(out) ==
    LET o == [op |-> "isAdmin", t |-> 0]
        ch == chainReturn(chain, o)
    IN  /\ o \in chain.ops
        /\ chain' = IF out = "err" THEN chainFail(ch)
                    ELSE chainResolve([ch EXCEPT !.isAdmin = out = "true"], 2)
        /\ UNCHANGED routeRest

gameGetUserReply(out) ==
    LET o == [op |-> "getUser", t |-> 0]
        ch == chainReturn(chain, o)
    IN  /\ o \in chain.ops
        /\ chain' = CASE out = "err" -> chainFail(ch)
                      [] out = "null" -> [ch EXCEPT !.isHost = FALSE]
                      [] OTHER -> chainResolve([ch EXCEPT !.isHost = out = "host"], 2)
        /\ UNCHANGED routeRest

getTeamByIdReply(t, fails) ==
    LET o == [op |-> "getTeamById", t |-> t]
        ch == chainReturn(chain, o)
    IN  /\ o \in chain.ops
        /\ chain' = IF fails THEN chainCancel(ch)
                    ELSE chainCall(ch, {[op |-> "delete", t |-> t]})
        /\ UNCHANGED routeRest

teamDeleteReply(t, fails) ==
    LET o == [op |-> "delete", t |-> t]
        ch == chainReturn(chain, o)
    IN  /\ o \in chain.ops
        /\ chain' = IF fails THEN chainCancel(ch)
                    ELSE chainResolve([ch EXCEPT !.deleted = @ \cup {t}], 3)
        /\ UNCHANGED routeRest

\* The loop tick that runs a continuation registered on the idle latch.
chainTick ==
    /\ chain.latch.defer # <<>>
    /\ chain' = chainCont([chain EXCEPT !.latch = LatchTick(@)], Head(chain.latch.defer))
    /\ UNCHANGED routeRest

NextRoute ==
    \/ \E valid \in BOOLEAN : postRefused(valid)
    \/ \E n \in 0..MaxTeams : postDeleteTeam(n)
    \/ \E out \in {"err", "null", "game"} : getGameByIdReply(out)
    \/ \E out \in {"err", "true", "false"} : isAdminReply(out)
    \/ \E out \in {"err", "null", "host", "other"} : gameGetUserReply(out)
    \/ \E t \in 1..MaxTeams, fails \in BOOLEAN : getTeamByIdReply(t, fails)
    \/ \E t \in 1..MaxTeams, fails \in BOOLEAN : teamDeleteReply(t, fails)
    \/ chainTick

\* ------------------------------------- FactoryManager: unload, unloadFactory
\* Array.prototype.splice(i, 1), with i counted from 1.
splice(fs, i) == SubSeq(fs, 1, i - 1) \o SubSeq(fs, i + 1, Len(fs))

\* this.factories.forEach(function(entry, i) {...}) of unloadFactory: the
\* indices up to the length at the start are visited in order, an index the
\* list no longer has is skipped, and a matching entry is spliced out of the
\* list being walked.
RECURSIVE forEachSplice(_, _, _, _, _)
forEachSplice(fs, i, len, id, unloadedAny) ==
    IF i > len THEN [list |-> fs, any |-> unloadedAny]
    ELSE IF i > Len(fs) \/ fs[i].id # id
    THEN forEachSplice(fs, i + 1, len, id, unloadedAny)
    ELSE forEachSplice(splice(fs, i), i + 1, len, id, TRUE)

\* unloadFactory(factory) for a factory of the given ID: the list afterwards
\* and the value returned.
unloadFactory(fs, id) == forEachSplice(fs, 1, Len(fs), id, FALSE)

\* The forEach of unload(): factory.unload() on every entry. calls counts
\* the unload() calls per Factory object.
\* (unloadNotifyFirst: only the first entry is unloaded.)
unloadNotifyFirst(fs, calls) ==
    [n \in DOMAIN calls |-> calls[n] + (IF fs # <<>> /\ fs[1].inst = n THEN 1 ELSE 0)]
unloadNotify(fs, calls) ==
    [n \in DOMAIN calls |-> calls[n] + Cardinality({i \in 1..Len(fs) : fs[i].inst = n})]

\* The loaded lists SpecUnload starts from: up to MaxListLen Factory
\* objects, any IDs, IDs held twice included.
LoadedLists ==
    UNION {{[i \in 1..k |-> [id |-> ids[i], inst |-> i]] : ids \in [1..k -> FactoryIds]} :
           k \in 0..MaxListLen}

\* op, arg, before: the last call, its argument and the list it found.
UnloadStart(fs) ==
    [list |-> fs, calls |-> [n \in 1..MaxListLen |-> 0], ret |-> "none",
     op |-> "none", arg |-> 0, before |-> <<>>, ops |-> 0]

\* unload().
callUnload ==
    /\ ul.ops < MaxUnloadCalls
    /\ ul' = [ul EXCEPT !.list = unload(ul.list),
                        !.calls = unloadNotify(ul.list, ul.calls),
                        !.ret = "none", !.op = "unload", !.arg = 0,
                        !.before = ul.list, !.ops = @ + 1]
    /\ UNCHANGED unloadRest

\* unloadFactory(factory) with a factory of ID f.
callUnloadFactory(f) ==
    /\ ul.ops < MaxUnloadCalls
    /\ LET r == unloadFactory(ul.list, f)
       IN  ul' = [ul EXCEPT !.list = r.list,
                            !.ret = IF r.any THEN "true" ELSE "false",
                            !.op = "unloadFactory", !.arg = f,
                            !.before = ul.list, !.ops = @ + 1]
    /\ UNCHANGED unloadRest

NextUnload ==
    \/ callUnload
    \/ \E f \in FactoryIds : callUnloadFactory(f)

UnloadParked == ul = UnloadStart(<<>>)
InitUnload == \E fs \in LoadedLists : ul = UnloadStart(fs)

\* ------------------------------- getGameUserCount and getGameUsers: filters
\* The query object built from the options as they are after the override:
\* game_id; $or when requested is false; team_id {$ne: null} ("ne") or null
\* when players is set; is_spectator, is_special, user_id when set ("u", 0:
\* the field is absent).
queryObject(game, o) ==
    [game_id |-> game,
     or |-> o.requested = "f",
     team_id |-> CASE o.players = "u" -> "u" [] o.players = "t" -> "ne" [] OTHER -> "null",
     is_spectator |-> o.spectators,
     is_special |-> o.specials,
     user_id |-> o.user]

\* The query objects of getGameUserCount and of getGameUsers.
gameUserCountQuery(game, options) == queryObject(game, overrideRequested(options))
gameUsersQuery(game, options) == queryObject(game, overrideRequested(options))

Tri == {"u", "t", "f"}
QueryGames == 1..NumQueryGames
QueryUsers == 0..NumQueryUsers

\* Every options object: each flag undefined, true or false, with or
\* without a user.
AllOptions ==
    {Options(p, sp, x, r, u) : p \in Tri, sp \in Tri, x \in Tri, r \in Tri, u \in QueryUsers}

\* getGameUserCount(game, options, callback) up to the get: the key and the
\* query object its continuation will use.
callGetGameUserCount(game, options) ==
    /\ Len(gq) < MaxQueryCalls
    /\ gq' = Append(gq, [op |-> "getGameUserCount", game |-> game, options |-> options,
                         key |-> redisCacheKey("getGameUserCount", game, 0, options),
                         query |-> gameUserCountQuery(game, options)])
    /\ UNCHANGED queryRest

\* getGameUsers(game, options, callback) up to the query; it uses no key.
callGetGameUsers(game, options) ==
    /\ Len(gq) < MaxQueryCalls
    /\ gq' = Append(gq, [op |-> "getGameUsers", game |-> game, options |-> options,
                         key |-> CacheKey("none", 0, 0, <<>>),
                         query |-> gameUsersQuery(game, options)])
    /\ UNCHANGED queryRest

NextQuery ==
    \/ \E game \in QueryGames, options \in AllOptions : callGetGameUserCount(game, options)
    \/ \E game \in QueryGames, options \in AllOptions : callGetGameUsers(game, options)

QueryParked == gq = <<>>

\* ------------------------------- FactoryManager: unload calls among loads
\* unloads: unload() calls so far. idle, loads, loadOver, inFlight: at the
\* last unload(), the external callers that had not called yet, the load()
\* calls made, whether no load() was in progress, and the IDs whose load
\* work was running.
UnIdle ==
    [calls |-> 0, unloads |-> 0, idle |-> {}, loads |-> 0, loadOver |-> FALSE,
     inFlight |-> {}]

\* unload(), called from outside while loads may be in flight.
unloadCall ==
    /\ un.calls < MaxManagerUnloads
    /\ factories' = unload(factories)
    /\ un' = [calls |-> un.calls + 1,
              unloads |-> un.unloads + 1,
              idle |-> {c \in Callers : caller[c].st = "idle"},
              loads |-> loadCalls,
              loadOver |-> LoadOver,
              inFlight |-> {w.f : w \in works}]
    /\ UNCHANGED <<storeGame, nextFac, fmCache, mutex, works, workStarts, caller,
                   ld, loadCalls, gv, errInjected>>
    /\ UNCHANGED reloadRest

\* unloadFactory(factory), called from outside with a Factory of ID f.
unloadFactoryCall(f) ==
    /\ un.calls < MaxManagerUnloads
    /\ factories' = unloadFactory(factories, f).list
    /\ un' = [un EXCEPT !.calls = @ + 1]
    /\ UNCHANGED <<storeGame, nextFac, fmCache, mutex, works, workStarts, caller,
                   ld, loadCalls, gv, errInjected>>
    /\ UNCHANGED reloadRest

NextReload ==
    \/ \E c \in Callers, f \in FactoryIds : getFactory(c, f)
    \/ \E w \in works, fails \in BOOLEAN : isValidFactoryIdReply(w, fails)
    \/ \E w \in works, fails \in BOOLEAN : getGameReply(w, fails)
    \/ load
    \/ \E fails \in BOOLEAN : getFactoriesReply(fails)
    \/ loadTick
    \/ unloadCall
    \/ \E f \in FactoryIds : unloadFactoryCall(f)

ReloadParked == un = UnIdle

\* ---------------------- getGameUsersCount, getUserGameState: the record
\* The eight kinds of row: in a team or not, special or not, spectator or
\* not.
RowKinds ==
    {Row(0, team, special, spectator) :
        team \in {0, 1}, special \in BOOLEAN, spectator \in BOOLEAN}

\* n rows of kind k.
Copies(k, n) == [i \in 1..n |-> k]

\* The rows of every kind in turn, counts[k] of kind k.
RECURSIVE Blocks(_, _)
Blocks(kinds, counts) ==
    IF kinds = {} THEN <<>>
    ELSE LET k == CHOOSE x \in kinds : TRUE
         IN  Copies(k, counts[k]) \o Blocks(kinds \ {k}, counts)

\* The replies of the authoritative store: up to MaxPerKind rows of every
\* kind, and every list of up to two rows in either order.
RowLists ==
    {Blocks(RowKinds, counts) : counts \in [RowKinds -> 0..MaxPerKind]}
        \cup SeqsUpTo(RowKinds, 2)

RecordOps == {"getGameUsersCount", "getUserGameState"}

RecordParked == rec = [st |-> "parked", rows |-> <<>>, op |-> "none", value |-> <<>>,
                       stored |-> <<>>, hit |-> <<>>]

InitRecord ==
    \E rows \in RowLists :
        rec = [st |-> "rows", rows |-> rows, op |-> "none", value |-> <<>>,
               stored |-> <<>>, hit |-> <<>>]

\* The query callback of op with the rows: the value called back and the
\* string handed to setex.
recordWritten(op) ==
    /\ rec.st = "rows"
    /\ rec' = [rec EXCEPT !.st = "stored", !.op = op,
                          !.value = StoredValue(op, rec.rows),
                          !.stored = StoreString(op, rec.rows)]
    /\ UNCHANGED recordRest

\* The get callback of a later call of the same operation, with that
\* string: the value called back.
recordHit ==
    /\ rec.st = "stored"
    /\ rec' = [rec EXCEPT !.st = "hit",
                          !.hit = IF rec.op = "getGameUsersCount"
                                  THEN gameUsersCountHit(rec.stored)
                                  ELSE userGameStateHit(rec.stored)]
    /\ UNCHANGED recordRest

NextRecord ==
    \/ \E op \in RecordOps : recordWritten(op)
    \/ recordHit

RouteParked == chain = ChainIdle

LatchParked ==
    /\ latch = LatchNew
    /\ lK = 0
    /\ lAdds = 0
    /\ lResolves = 0
    /\ lThen = {}
    /\ lFired = [c \in Conts |-> 0]
    /\ lFiredEarly = [c \in Conts |-> FALSE]
    /\ lZeroed = [c \in Conts |-> FALSE]
    /\ lRegd = <<>>
    /\ lRan = <<>>

\* The FactoryManager at rest over an empty store (SpecLatch does not use it).
FMParked ==
    /\ storeGame = [f \in FactoryIds |-> "none"]
    /\ FMConstructed

\* The GameUserModelManager at rest over an empty fast store.
GUMParked == redis = RedisEmpty /\ GUMConstructed

RestParked ==
    RouteParked /\ UnloadParked /\ QueryParked /\ ReloadParked /\ RecordParked

InitSpecLatch == InitLatch /\ FMParked /\ GUMParked /\ RestParked
InitSpecFM == LatchParked /\ InitFM /\ GUMParked /\ RestParked
InitSpecGUM == LatchParked /\ FMParked /\ InitGUM /\ RestParked
InitSpecRoute == LatchParked /\ FMParked /\ GUMParked /\ RestParked
InitSpecInvalid == LatchParked /\ InitFM /\ InitGUM /\ RestParked
InitSpecUnload ==
    /\ LatchParked /\ FMParked /\ GUMParked
    /\ RouteParked /\ QueryParked /\ ReloadParked /\ RecordParked /\ InitUnload
InitSpecQuery == LatchParked /\ FMParked /\ GUMParked /\ RestParked
InitSpecReload == LatchParked /\ InitFM /\ GUMParked /\ RestParked
InitSpecRecord ==
    /\ LatchParked /\ FMParked /\ GUMParked
    /\ RouteParked /\ UnloadParked /\ QueryParked /\ ReloadParked /\ InitRecord
Init ==
    /\ InitLatch /\ InitFM /\ InitGUM
    /\ RouteParked /\ QueryParked /\ ReloadParked /\ RecordParked /\ InitUnload
Next == NextLatch \/ NextFM \/ NextGUM \/ NextRoute \/ NextUnload \/ NextInvalid
           \/ NextQuery \/ NextReload \/ NextRecord

Spec == Init /\ [][Next]_vars
SpecLatch == InitSpecLatch /\ [][NextLatch]_vars
SpecFM == InitSpecFM /\ [][NextFM]_vars
SpecGUM == InitSpecGUM /\ [][NextGUM]_vars
SpecRoute == InitSpecRoute /\ [][NextRoute]_vars
SpecUnload == InitSpecUnload /\ [][NextUnload]_vars
SpecInvalid == InitSpecInvalid /\ [][NextInvalid]_vars
SpecQuery == InitSpecQuery /\ [][NextQuery]_vars
SpecReload == InitSpecReload /\ [][NextReload]_vars
SpecRecord == InitSpecRecord /\ [][NextRecord]_vars

\* The route with every reply and every loop tick eventually happening: the
\* stores call back, and the event loop runs what is queued.
SpecRouteFair == SpecRoute /\ WF_vars(NextRoute)

\* All k adds, all k resolves and the registration of c have happened and
\* no deferred continuation is waiting for its tick.
LatchRunOver(c) ==
    /\ lAdds = lK
    /\ lResolves = lK
    /\ c \in lThen
    /\ latch.defer = <<>>

\* C2 (as claimed): whatever the order of the k adds, the k resolves and the
\* registration, the continuation fires exactly once and never before the
\* k-th resolve.
C2_AnyInterleaving ==
    \A c \in Conts :
        /\ lFired[c] <= 1
        /\ ~lFiredEarly[c]
        /\ (LatchRunOver(c) => lFired[c] = 1)

\* C2 (amended): the continuation fires exactly once; it fires after the
\* k-th resolve and never earlier provided the counter was never zero while
\* the continuation was registered, or being registered, with adds still to
\* come.
C2_FanIn ==
    \A c \in Conts :
        /\ lFired[c] <= 1
        /\ (~lZeroed[c] => ~lFiredEarly[c])
        /\ (LatchRunOver(c) => lFired[c] = 1)

\* A run with at least two adds whose continuation was registered on a
\* busy latch and has fired after the last resolve.
C2_Witness ==
    \E c \in Conts :
        /\ lK >= 2
        /\ LatchRunOver(c)
        /\ ~lZeroed[c]
        /\ lFired[c] = 1
        /\ ~lFiredEarly[c]

\* ------------------------------------------------ claims on FactoryManager
WorksFor(f) == {w \in works : w.f = f}

\* C1: single-flight. At most one load work is in flight per factory ID; a
\* getFactory call issued while a load for its ID is pending starts no work
\* of its own; and all calls answered by the same load cycle receive the
\* identical result (same error, same null or same Factory object).
C1_SingleFlight ==
    /\ \A f \in FactoryIds : Cardinality(WorksFor(f)) <= 1
    /\ \A c \in Callers : caller[c].pend => ~caller[c].started
    /\ \A c1, c2 \in Callers :
          (/\ caller[c1].st = "done" /\ caller[c1].via = "load"
           /\ caller[c2].st = "done" /\ caller[c2].via = "load"
           /\ caller[c1].f = caller[c2].f
           /\ caller[c1].cyc = caller[c2].cyc)
          => caller[c1].res = caller[c2].res

\* Two calls for one ID, the second issued while the load was pending, have
\* both been answered with the same Factory object.
C1_Witness ==
    \E c1, c2 \in Callers :
        /\ c1 # c2
        /\ caller[c1].st = "done" /\ caller[c2].st = "done"
        /\ caller[c1].started /\ caller[c2].pend
        /\ caller[c1].f = caller[c2].f
        /\ caller[c1].cyc = caller[c2].cyc
        /\ caller[c1].res.fac # 0
        /\ caller[c1].res = caller[c2].res

\* C4: game scoping. A factory that the store holds for another game is
\* answered with (no error, null), whenever the store reported no error for
\* it, and is never in this manager's loaded list.
C4_GameScoping ==
    /\ \A i \in 1..Len(factories) : storeGame[factories[i].id] = ThisGame
    /\ \A c \in Callers :
          (caller[c].st = "done" /\ storeGame[caller[c].f] = OtherGame)
          => /\ caller[c].res.fac = 0
             /\ (~errInjected[caller[c].f] => caller[c].res = ResNull)

\* A call for a factory of the other game has been answered with null after
\* both store checks succeeded, while a factory of this game is loaded.
C4_Witness ==
    \E c \in Callers :
        /\ caller[c].st = "done"
        /\ storeGame[caller[c].f] = OtherGame
        /\ ~errInjected[caller[c].f]
        /\ caller[c].res = ResNull
        /\ fmCache.map[caller[c].f] # 0
        /\ factories # <<>>

\* The sequence holds every element of S exactly once and nothing else.
HoldsExactly(seq, S) == SeqToSet(seq) = S /\ Len(seq) = Cardinality(S)

\* C7: whenever load() called back without error, the loaded list held at
\* that moment exactly one Factory per ID the store lists for this game,
\* whatever was loaded before.
C7_LoadAllResult ==
    \A i \in 1..Len(ld.cb) :
        ld.cb[i].err = "none"
        => HoldsExactly(ld.cb[i].loaded, {f \in FactoryIds : storeGame[f] = ThisGame})

\* load() called back without error for a game of two factories, one of
\* which was loaded before the call.
C7_Witness ==
    /\ ld.cb # <<>>
    /\ ld.cb[1].err = "none"
    /\ Len(ld.cb[1].loaded) = 2
    /\ ld.before # <<>>

\* C8: once the list fetch or a factory load has reported an error to
\* load(), the external callback has been invoked exactly once, with the
\* first error reported; no later error or success adds an invocation.
C8_LoadAllError ==
    ld.errs # <<>> => ld.cb = <<LoadCbEntry(ld.errs[1], <<>>)>>

\* Two factory loads reported an error to one load() call, which is over.
C8_Witness ==
    /\ Len(ld.errs) = 2
    /\ ld.st = "loading"
    /\ ld.pend = {}
    /\ Len(ld.cb) = 1

\* Every check of the getVisibleFactories call has called back.
VisChecksOver ==
    /\ gv.st = "run"
    /\ \A i \in 1..Len(gv.snap) : gv.check[i] \in {"done", "skip"}

\* C9 (as claimed): in load() and getVisibleFactories() every add() is
\* matched by a resolve() on every path, so once all sub-operations have
\* called back the latch counter is zero.
C9_LatchReleased ==
    /\ (ld.st = "loading" /\ ld.pend = {}) => ld.latch.count = 0
    /\ VisChecksOver => gv.latch.count = 0

\* C10: getVisibleFactories invokes its callback at most once, and exactly
\* once when every check has called back; without a check error the
\* callback comes after all checks, with exactly the snapshot factories for
\* which getUser gave a live user and isVisibleFor gave true; with a check
\* error it carries the first error and a result list is never delivered.
C10_VisibleTo ==
    /\ Len(gv.cb) <= 1
    /\ (VisChecksOver /\ gv.latch.defer = <<>>) => Len(gv.cb) = 1
    /\ (gv.errs = <<>> /\ gv.cb # <<>>)
       => /\ VisChecksOver
          /\ gv.cb[1].err = "none"
          /\ HoldsExactly(gv.cb[1].list, {gv.snap[i].inst : i \in gv.live \cap gv.vis})
    /\ gv.errs # <<>>
       => gv.cb = <<[err |-> gv.errs[1].err, ei |-> gv.errs[1].ei, list |-> <<>>]>>

\* Two factories were checked without error; one was visible and is the
\* whole result.
C10_Witness ==
    /\ Len(gv.snap) = 2
    /\ gv.errs = <<>>
    /\ Len(gv.cb) = 1
    /\ Len(gv.cb[1].list) = 1
    /\ Cardinality(gv.live) = 2

\* A check reported an error after another had; the callback ran once.
C10_WitnessError ==
    /\ Len(gv.errs) = 2
    /\ VisChecksOver
    /\ Len(gv.cb) = 1

\* ------------------------------------------ claims on GameUserModelManager
\* C3: two create(id) calls with no clear between them return the same
\* wrapper, whichever lookup path (getUserById, getGameUser from the fast
\* store, getGameUser from the authoritative store) made the call.
C3_Identity ==
    \A x \in created, y \in created :
        (x.id = y.id /\ x.epoch = y.epoch) => x.obj = y.obj

\* C3 witness: the same ID was wrapped by getUserById and by getGameUser
\* with no clear in between.
C3_Witness ==
    \E x \in created, y \in created :
        /\ x.id = y.id
        /\ x.epoch = y.epoch
        /\ x.via = "getUserById"
        /\ y.via = "getGameUser"

\* The value called back, without the wrapper's serial.
PlainValue(op, v) ==
    IF op \in {"getUserById", "getGameUser"} /\ v # ValNull THEN <<v[2]>> ELSE v

\* C5: a read whose fast-store get failed calls back exactly once: with the
\* value computed from the rows of the authoritative store, or with that
\* store's error, and never with the fast store's error.
C5_CacheMissFallback ==
    \A s \in Slots :
        LET r == read[s]
        IN  (r.st = "run" /\ r.getErr /\ ReadOver(r)) =>
                /\ Len(r.cb) = 1
                /\ r.cb[1].err # "redis"
                /\ r.dbErr <=> r.cb[1].err = "db"
                /\ r.dbOk <=> r.cb[1].err = "none"
                /\ r.dbOk => PlainValue(r.op, r.cb[1].val)
                                = PlainValue(r.op, DbAnswer(r, r.data, guCache).val)

\* C5 witness: a getGameUser whose get failed has called back the game user
\* the authoritative store holds.
C5_Witness ==
    \E s \in Slots :
        /\ read[s].op = "getGameUser"
        /\ read[s].getErr
        /\ ReadOver(read[s])
        /\ read[s].dbOk
        /\ read[s].cb = <<CbEntry("none", <<1, 1>>)>>

\* C6 (as claimed): a read called after flushCache() completed, for a key
\* that held a record when flushCache() was called, is not answered from a
\* fast-store record computed from a query issued before that flushCache()
\* call without an authoritative read of its own.
C6_BulkInvalidation ==
    \A s \in Slots :
        LET r == read[s]
        IN  (/\ r.st = "run"
             /\ r.startDone > 0
             /\ r.key \in flush.had
             /\ r.hitTag # NaN
             /\ ~r.dbPend /\ ~r.dbOk /\ ~r.dbErr)
            => r.hitTag >= r.startDone

\* ------------------------------------- more claims on FactoryManager
\* The entries of the loaded list that hold factory f.
LoadedAt(f) == {i \in 1..Len(factories) : factories[i].id = f}

\* C11: a getFactory call for an ID that is in the loaded list is answered
\* at once with the loaded Factory object, starts no work, queues nothing
\* and leaves the list alone; a call for any other ID goes to the mutex
\* loader under that ID.
C11_GetLoaded ==
    [][\A c \in Callers :
          (caller[c].st = "idle" /\ caller'[c].st # "idle") =>
              LET f == caller'[c].f
              IN  /\ factories' = factories
                  /\ IF LoadedAt(f) # {}
                     THEN /\ caller'[c].st = "done"
                          /\ caller'[c].res.err = "none"
                          /\ \E i \in LoadedAt(f) : caller'[c].res.fac = factories[i].inst
                          /\ works' = works
                          /\ workStarts' = workStarts
                          /\ mutex' = mutex
                     ELSE /\ caller'[c].st = "wait"
                          /\ MutexBusy(mutex', f)
                          /\ CbCaller(c) \in SeqToSet(MutexWaiters(mutex', f))]_vars

\* C11 witness: a call was answered from the loaded list with the Factory
\* object that is in the list.
C11_Witness ==
    \E c \in Callers :
        /\ caller[c].st = "done"
        /\ caller[c].via = "loaded"
        /\ \E i \in LoadedAt(caller[c].f) : caller[c].res.fac = factories[i].inst

\* The external calls waiting for the load of factory f.
WaitingFor(f) == {c \in Callers : caller[c].st = "wait" /\ caller[c].f = f}

\* This step ends the load of factory f on a store error.
ErrSettles(f) ==
    /\ WorksFor(f) # {}
    /\ {w \in works' : w.f = f} = {}
    /\ \/ errInjected'[f] /\ ~errInjected[f]
       \/ \E c \in WaitingFor(f) : caller'[c].res.err # "none"
       \/ Len(ld'.errs) > Len(ld.errs)

\* C12: when the validity check or the game lookup of a load reports a
\* store error, every waiting caller is called back with that error (load()'s
\* own callback included) and the loaded list is left as it was.
C12_LoadFailure ==
    [][\A f \in FactoryIds :
          ErrSettles(f) =>
              \E what \in {"valid", "game"} :
                  LET error == [err |-> what, ef |-> f, fac |-> 0]
                  IN  /\ factories' = factories
                      /\ \A c \in WaitingFor(f) :
                            caller'[c].st = "done" /\ caller'[c].res = error
                      /\ CbLoad(f) \in SeqToSet(MutexWaiters(mutex, f)) =>
                            ld'.errs = Append(ld.errs, error)]_vars

\* C12 witness: two calls for one ID were both answered with the error of
\* the game lookup, and the factory is not loaded.
C12_Witness ==
    \E c1, c2 \in Callers :
        /\ c1 # c2
        /\ caller[c1].st = "done" /\ caller[c2].st = "done"
        /\ caller[c1].f = caller[c2].f
        /\ caller[c1].res = [err |-> "game", ef |-> caller[c1].f, fac |-> 0]
        /\ caller[c2].res = caller[c1].res
        /\ caller[c2].pend
        /\ LoadedAt(caller[c1].f) = {}

\* C13: the in-flight record of a key exists exactly while a work for that
\* key is running, whatever the work's outcome, so a load call issued when
\* no load is pending invokes the work function again.
C13_FreshCycle ==
    /\ \A f \in FactoryIds :
          /\ MutexBusy(mutex, f) <=> WorksFor(f) # {}
          /\ ~MutexBusy(mutex, f) => MutexWaiters(mutex, f) = <<>>
    /\ \A c \in Callers :
          (caller[c].via = "load" /\ ~caller[c].pend) =>
              /\ caller[c].started
              /\ caller[c].cyc <= workStarts[caller[c].f]

\* C13 witness: a call answered with a store error by the first cycle of an
\* ID, and a later call for that ID that started the second cycle and was
\* answered with the Factory.
C13_Witness ==
    \E c1, c2 \in Callers :
        /\ caller[c1].f = caller[c2].f
        /\ caller[c1].st = "done" /\ caller[c1].cyc = 1
        /\ caller[c1].res.err # "none"
        /\ caller[c2].st = "done" /\ caller[c2].cyc = 2
        /\ caller[c2].started
        /\ caller[c2].res.fac # 0

\* ------------------------------- more claims on GameUserModelManager
\* C14 (as claimed): all wrappers ever handed out for one ID are the same
\* object, flushCache() calls in between included (a wrapper handed out
\* before the flush may still be referenced when the next one is made).
C14_OneWrapperPerId ==
    \A x \in created, y \in created : x.id = y.id => x.obj = y.obj

\* A value called back, as the record's writer called it back: without the
\* wrapper's serial, and for getUserById as the result of isValidId
\* underneath; and the value a fast-store hit has called back.
AsWritten(op, v) ==
    IF op = "getUserById" THEN <<BoolNum(v # ValNull)>> ELSE PlainValue(op, v)
HitDelivered(r) == AsWritten(r.op, r.hitVal)

\* The get of read r was answered, without an error, with a record.
GotRecord(r) == r.st = "run" /\ ~r.getPend /\ ~r.getErr /\ ~r.got.nil

\* A read answered from the fast store calls back the value the record's
\* writer called back.
HitUnchanged ==
    \A s \in Slots :
        read[s].hitTag # NaN =>
            /\ GotRecord(read[s])
            /\ HitDelivered(read[s]) = read[s].got.orig

\* A read whose get found the record gone at its TTL is not answered from
\* the fast store and has queried the authoritative store.
ExpiredFallsBack ==
    \A s \in Slots :
        (read[s].got.expired /\ ReadOver(read[s])) =>
            /\ read[s].hitTag = NaN
            /\ read[s].dbOk \/ read[s].dbErr

\* C15 (as claimed): every record written to the fast store is called back
\* unchanged by a read whose get finds it before its TTL, and a read after
\* the TTL falls back to the authoritative store.
C15_AnyValueServed ==
    /\ HitUnchanged
    /\ ExpiredFallsBack
    /\ \A s \in Slots : GotRecord(read[s]) => read[s].hitTag # NaN

\* C15 (amended): every record written to the fast store, except the empty
\* string getGameUser writes, is called back unchanged by a read whose get
\* finds it before its TTL, and a read after the TTL falls back to the
\* authoritative store.
C15_CacheFreshness ==
    /\ HitUnchanged
    /\ ExpiredFallsBack
    /\ \A s \in Slots :
          (GotRecord(read[s]) /\ ~(read[s].op = "getGameUser" /\ read[s].got.val = <<>>))
              => read[s].hitTag # NaN

\* C15 witness: the counters a getGameUsersCount wrote came back unchanged
\* from the fast store.
C15_Witness ==
    \E s \in Slots :
        /\ read[s].op = "getGameUsersCount"
        /\ read[s].hitTag # NaN
        /\ read[s].got.orig = <<1, 1, 1, 0, 0, 0>>
        /\ read[s].cb = <<CbEntry("none", <<1, 1, 1, 0, 0, 0>>)>>

\* C15 witness (expiry): a read of a key whose record had expired called
\* back the value of the authoritative store.
C15_WitnessExpired ==
    \E s \in Slots :
        /\ read[s].got.expired
        /\ ReadOver(read[s])
        /\ read[s].dbOk
        /\ Len(read[s].cb) = 1

\* The authoritative query of read r was issued.
QueryIssued(r) == r.dbPend \/ r.dbOk \/ r.dbErr

\* C16 (as claimed): in every read operation, isValidId included, the
\* authoritative query is issued only after the fast-store path ended
\* without a value, and a read answered from a fast-store hit calls back
\* that value only and issues no authoritative query.
C16_StagedReadThrough ==
    \A s \in Slots :
        LET r == read[s]
        IN  r.st = "run" =>
                /\ QueryIssued(r) => ~r.getPend /\ r.hitTag = NaN
                /\ r.hitTag # NaN => r.cb = <<CbEntry("none", r.hitVal)>>

\* C17: the step in which the authoritative query of a read reports an
\* error calls back once, with the error and without a value, writes
\* nothing to the fast store and leaves no query of the read behind; a read
\* not answered from the fast store before has then called back the error
\* only.
C17_AuthoritativeErrorFatal ==
    [][\A s \in Slots :
          (~read[s].dbErr /\ read'[s].dbErr) =>
              /\ read'[s].cb = Append(read[s].cb, CbEntry("db", ValNull))
              /\ read[s].hitTag = NaN => read'[s].cb = <<CbEntry("db", ValNull)>>
              /\ redis' = redis
              /\ ~read'[s].dbPend /\ ~read'[s].dbOk
              /\ read'[s].latch.defer = <<>>]_vars

\* C17 witness: a getGameUserCount whose query failed is over, has called
\* back the error only, and its key holds no record.
C17_Witness ==
    \E s \in Slots :
        /\ read[s].op = "getGameUserCount"
        /\ read[s].dbErr
        /\ ReadOver(read[s])
        /\ read[s].cb = <<CbEntry("db", ValNull)>>
        /\ redis[read[s].key].nil

\* C18: the step in which the authoritative query of a read succeeds calls
\* back once, with the value; the fast store then holds that value under
\* the read's key, with its TTL ahead, when the setex succeeded, and is
\* unchanged when the setex failed or the fast store was not ready; the
\* failed setex adds no callback.
C18_WriteBack ==
    [][\A s \in Slots :
          (~read[s].dbOk /\ read'[s].dbOk) =>
              LET r == read'[s]
                  delivered == r.cb[Len(r.cb)]
              IN  /\ r.cb = Append(read[s].cb, delivered)
                  /\ delivered.err = "none"
                  /\ r.key = read[s].key
                  /\ r.setex \in {"ok", "failed", "skip"}
                  /\ r.setex = "ok" =>
                        /\ \A k \in AllKeys \ {r.key} : redis'[k] = redis[k]
                        /\ ~redis'[r.key].nil /\ ~redis'[r.key].expired
                        /\ redis'[r.key].orig = AsWritten(r.op, delivered.val)
                  /\ r.setex # "ok" => redis' = redis]_vars

\* C18 witness: a getGameUserCount whose setex failed is over and has
\* called back the count of the authoritative store only; its key holds no
\* record.
C18_Witness ==
    \E s \in Slots :
        /\ read[s].op = "getGameUserCount"
        /\ read[s].setex = "failed"
        /\ ReadOver(read[s])
        /\ read[s].cb = <<CbEntry("none", <<2>>)>>
        /\ redis[read[s].key].nil

\* C18 witness (written): a getGameUserCount has called back the count and
\* its key holds it.
C18_WitnessWritten ==
    \E s \in Slots :
        /\ read[s].op = "getGameUserCount"
        /\ read[s].setex = "ok"
        /\ read[s].cb = <<CbEntry("none", <<2>>)>>
        /\ redis[read[s].key].val = <<"2">>

\* C19: a read called while isReady() is false issues no get: nothing of
\* the fast store reaches it and its authoritative query is issued or is the
\* next thing to run; and a query answered while isReady() is false leaves
\* the fast store as it is.
C19_IsReadyGate ==
    [][\A s \in Slots :
          LET r == read'[s]
          IN  /\ r.get = "skip" =>
                    /\ ~r.getPend /\ ~r.getErr
                    /\ r.got = NilEntry /\ r.hitTag = NaN
                    /\ QueryIssued(r) \/ r.latch.defer = <<"query">>
              /\ (read[s].dbPend /\ ~r.dbPend /\ r.setex = "skip") => redis' = redis]_vars

\* C19 witness: a getTeamUserCount called and answered while isReady() was
\* false is over, has called back the count of the authoritative store, and
\* the record the fast store held for its key is as it was.
C19_Witness ==
    \E s \in Slots :
        /\ read[s].op = "getTeamUserCount"
        /\ read[s].get = "skip"
        /\ read[s].setex = "skip"
        /\ ReadOver(read[s])
        /\ read[s].cb = <<CbEntry("none", <<2>>)>>
        /\ redis[read[s].key].val = <<"1">>

\* The get of read r was answered without an error and with nothing, or
\* for getGameUser with the empty string.
GotEmpty(r) ==
    /\ r.st = "run" /\ r.get = "issued" /\ ~r.getPend /\ ~r.getErr
    /\ r.got.nil \/ (r.op = "getGameUser" /\ r.got.val = <<>>)

\* C20: a read whose get yields nothing, or for getGameUser the empty
\* string, is not answered from the fast store: its authoritative query is
\* issued, and once the read is over its only callback is the one of that
\* query.
C20_EmptyHitIsMiss ==
    \A s \in Slots :
        LET r == read[s]
        IN  GotEmpty(r) =>
                /\ r.hitTag = NaN
                /\ QueryIssued(r)
                /\ ReadOver(r) =>
                      /\ Len(r.cb) = 1
                      /\ r.dbOk => PlainValue(r.op, r.cb[1].val)
                                      = PlainValue(r.op, DbAnswer(r, r.data, guCache).val)
                      /\ r.dbErr => r.cb[1] = CbEntry("db", ValNull)

\* C20 witness: a getGameUser whose get returned the empty string written
\* by an earlier getGameUser has queried the authoritative store and called
\* back the game user found there.
C20_Witness ==
    \E s \in Slots :
        /\ read[s].op = "getGameUser"
        /\ GotEmpty(read[s])
        /\ ~read[s].got.nil
        /\ read[s].dbOk
        /\ read[s].cb = <<CbEntry("none", <<1, 1>>)>>

\* ----------------------------------------------- more claims on the latch
\* C21: then() on a latch whose counter is zero does not run the
\* continuation inside the call but puts it last among those waiting for
\* the next tick; a waiting continuation has not run, and the tick that
\* takes it from the waiting ones runs it, once.
C21_ThenOnIdle ==
    [][\A c \in Conts :
          /\ (c \notin lThen /\ c \in lThen' /\ latch.count = 0) =>
                /\ lFired'[c] = 0
                /\ lRan' = lRan
                /\ latch'.defer = Append(latch.defer, c)
                /\ latch'.conts = latch.conts
          /\ c \in SeqToSet(latch'.defer) => lFired'[c] = 0
          /\ (c \in SeqToSet(latch.defer) /\ c \notin SeqToSet(latch'.defer)) =>
                /\ lFired'[c] = 1
                /\ lRan' = Append(lRan, c)]_vars

\* C21 witness: on a latch that never saw an add(), a continuation was
\* registered and has run once, on a tick.
C21_Witness ==
    \E c \in Conts :
        /\ lAdds = 0
        /\ c \in lThen
        /\ latch.defer = <<>>
        /\ lFired[c] = 1

\* The continuations registered on the latch, in the order of their then()
\* calls.
RegisteredInOrder == SelectSeq(lRegd, LAMBDA c : c \in SeqToSet(latch.conts))

\* C22: the resolve() that brings the counter to zero runs every registered
\* continuation once, one after another in the order of their then() calls,
\* and leaves none registered; any other resolve() runs none.
C22_ContinuationOrder ==
    [][lResolves' = lResolves + 1 =>
          IF latch.count = 1
          THEN /\ lRan' = lRan \o RegisteredInOrder
               /\ Len(RegisteredInOrder) = Len(latch.conts)
               /\ \A c \in Conts :
                     lFired'[c] = lFired[c] + (IF c \in SeqToSet(latch.conts) THEN 1 ELSE 0)
               /\ latch'.conts = <<>>
          ELSE lRan' = lRan /\ lFired' = lFired /\ latch'.conts = latch.conts]_vars

\* C22 witness: two continuations registered on a busy latch, the second
\* of the set first, have run in that order, once each.
C22_Witness ==
    /\ lRegd = <<2, 1>>
    /\ lRan = <<2, 1>>
    /\ lFired = [c \in Conts |-> 1]
    /\ lResolves >= 2
    /\ latch.conts = <<>>

\* C24 (as claimed): while fewer resolve() than add() calls have been made
\* on the latch, no continuation handed to it has run.
C24_NeverFiresShort ==
    \A c \in Conts : lResolves < lAdds => lFired[c] = 0

\* C24 (amended): a continuation runs only on the tick it was deferred to
\* by a then() on a zero counter, or inside the resolve() that brings the
\* counter from one to zero; so a continuation registered while work is
\* pending does not run as long as a resolve() is missing for the adds made
\* since the counter was last zero.
C24_StalledLatch ==
    [][\A c \in Conts :
          lFired'[c] # lFired[c] =>
              \/ c \in SeqToSet(latch.defer) /\ lResolves' = lResolves
              \/ /\ lResolves' = lResolves + 1
                 /\ latch.count = 1
                 /\ latch'.count = 0
                 /\ c \in SeqToSet(latch.conts)]_vars

\* C24 witness: all adds are made, a resolve is missing, and the
\* continuation registered after the first add has not run.
C24_Witness ==
    \E c \in Conts :
        /\ lK >= 2
        /\ lAdds = lK
        /\ lResolves = lK - 1
        /\ c \in SeqToSet(latch.conts)
        /\ latch.count = 1
        /\ lFired[c] = 0

\* ------------------------------------------- claims on the deleteTeam route
\* C23: in the chain of the deleteTeam route every stage's continuation
\* runs at most once, and only when the stage before it has run and every
\* add() made for its own stage has been resolved; a step that runs a
\* continuation (identity() first) runs no other one.
C23_LatchReuse ==
    [][\A n \in Stages :
          /\ chain'.ran[n] <= 1
          /\ chain'.ran[n] = 1 =>
                /\ chain'.resolves[n] = chain'.adds[n]
                /\ n > 1 => chain'.ran[n - 1] = 1
          /\ chain'.ran[n] # chain.ran[n] =>
                \A m \in Stages \ {n} : chain'.ran[m] = chain.ran[m]]_vars

\* C23 witness: with two teams to delete the three continuations have run,
\* once each, the last one after both deletes resolved, and the OK response
\* is sent.
C23_Witness ==
    /\ chain.teams = 2
    /\ chain.ran = [n \in Stages |-> 1]
    /\ chain.adds = <<1, 2, 2>>
    /\ chain.resolves = <<1, 2, 2>>
    /\ chain.out = <<"ok">>

\* ------------------------------- claims on unload() and unloadFactory()
\* C25: a call of unload() calls unload() once on every Factory object the
\* loaded list holds at the call, on no other, and leaves the list empty,
\* in the one step.
C25_UnloadAll ==
    [][(ul'.ops = ul.ops + 1 /\ ul'.op = "unload") =>
          /\ ul'.list = <<>>
          /\ \A n \in 1..MaxListLen :
                ul'.calls[n] = ul.calls[n]
                    + (IF \E i \in 1..Len(ul.list) : ul.list[i].inst = n THEN 1 ELSE 0)
          /\ ul'.ret = "none"]_vars

\* C25 witness: unload() was called on a full list of factories, two of
\* one ID; each got one unload() and the list is empty.
C25_Witness ==
    /\ ul.op = "unload"
    /\ Len(ul.before) = MaxListLen
    /\ ul.before[1].id = ul.before[2].id
    /\ ul.list = <<>>
    /\ ul.calls = [n \in 1..MaxListLen |-> 1]

\* The entries of fs whose ID is not id, in order.
WithoutId(fs, id) == SelectSeq(fs, LAMBDA e : e.id # id)

\* C26 (as claimed): after unloadFactory(factory) the list holds the
\* entries it held before whose ID is not the factory's, in their order, and
\* the call returned true exactly when the list held an entry of that ID.
C26_UnloadOne ==
    ul.op = "unloadFactory" =>
        /\ ul.list = WithoutId(ul.before, ul.arg)
        /\ ul.ret = "true" <=> \E i \in 1..Len(ul.before) : ul.before[i].id = ul.arg

\* ------------------------------------------------ claims on malformed IDs
\* The read in slot s was called with a malformed ID.
MalformedRead(r) ==
    /\ r.op \in ValidatingOps
    /\ r.a = MalformedId \/ (r.op = "getGameUser" /\ r.b = MalformedId)

\* C27: a getFactory or loadFactory call with a malformed ID is answered in
\* the step of the call with the 'Invalid factory ID' error and without a
\* factory, starts no work, queues nothing with the mutex loader and leaves
\* the loaded list alone; an isValidId, getUserById or getGameUser call with
\* a malformed ID is answered in the step of the call, once, with false or
\* null and without error, and issues neither a get nor a query.
C27_InvalidInput ==
    [][/\ \A c \in Callers :
            (caller[c].st = "idle" /\ caller'[c].st # "idle" /\ caller'[c].f = MalformedId) =>
                /\ caller'[c].st = "done"
                /\ caller'[c].res = [err |-> "invalid", ef |-> MalformedId, fac |-> 0]
                /\ UNCHANGED <<factories, mutex, works, workStarts>>
       /\ \A s \in Slots :
            (readCalls' = readCalls + 1 /\ read'[s] # read[s] /\ MalformedRead(read'[s])) =>
                /\ read'[s].cb
                      = <<CbEntry("none", IF read'[s].op = "isValidId" THEN <<0>> ELSE ValNull)>>
                /\ ReadOver(read'[s])
                /\ read'[s].get = "none" /\ ~QueryIssued(read'[s])
                /\ UNCHANGED <<redis, guCache>>]_vars

\* C27 witness: while a load of factory 1 is in flight a loadFactory call
\* with a malformed ID has been answered with the error, and a getGameUser
\* with a malformed user has been answered with null over a fast store that
\* holds a record.
C27_Witness ==
    /\ \E c \in Callers :
          /\ caller[c].via = "loadFactory"
          /\ caller[c].st = "done"
          /\ caller[c].res.err = "invalid"
    /\ \E w \in works : w.f = 1
    /\ \E s \in Slots :
          /\ read[s].op = "getGameUser"
          /\ read[s].b = MalformedId
          /\ read[s].cb = <<CbEntry("none", ValNull)>>
    /\ redis # RedisEmpty

\* ----------------------------------------------- claims on the filter options
\* C28: two getGameUserCount calls that build the same cache key build the
\* same query object.
C28_KeyCoversFilters ==
    \A i \in 1..Len(gq), j \in 1..Len(gq) :
        (/\ gq[i].op = "getGameUserCount"
         /\ gq[j].op = "getGameUserCount"
         /\ gq[i].key = gq[j].key)
        => gq[i].query = gq[j].query

\* C28 witness: two getGameUserCount calls with different options built the
\* same key (requested is true in both), and two built different keys.
C28_Witness ==
    /\ Len(gq) = 2
    /\ gq[1].op = "getGameUserCount" /\ gq[2].op = "getGameUserCount"
    /\ gq[1].options # gq[2].options
    /\ gq[1].options.requested = "t"
    /\ gq[1].key = gq[2].key
    /\ gq[1].query = gq[2].query

\* C28 witness (different filters): two calls that differ in the user only
\* built different keys.
C28_WitnessApart ==
    /\ Len(gq) = 2
    /\ gq[1].op = "getGameUserCount" /\ gq[2].op = "getGameUserCount"
    /\ gq[1].options = [gq[2].options EXCEPT !.user = 1]
    /\ gq[2].options.user = 0
    /\ gq[1].key # gq[2].key
    /\ gq[1].query # gq[2].query

\* The constraint a flag passed as t puts on its field of the query object
\* (team_id for players, the flag itself for the others).
TeamConstraint(t) == IF t = "t" THEN "ne" ELSE IF t = "f" THEN "null" ELSE "u"

\* The key characters standing for the passed flags p, sp, x.
FlagChars(p, sp, x, r) == <<p, ",", sp, ",", x, ",", r>>

\* C29: in getGameUserCount and getGameUsers, with requested true the query
\* holds team_id null, is_spectator false and is_special false whatever was
\* passed, and the key of getGameUserCount reads 0,0,0,1; with requested
\* false the query holds the $or and the passed constraints; with requested
\* undefined it holds the passed constraints and no $or.
C29_RequestedOverride ==
    \A i \in 1..Len(gq) :
        LET o == gq[i].options
            q == gq[i].query
            asPassed == /\ q.team_id = TeamConstraint(o.players)
                        /\ q.is_spectator = o.spectators
                        /\ q.is_special = o.specials
            flags == IF gq[i].op = "getGameUserCount"
                     THEN SubSeq(gq[i].key.o, 1, 7) ELSE <<>>
            keyed(cs) == gq[i].op = "getGameUserCount" => flags = cs
        IN  /\ q.game_id = gq[i].game /\ q.user_id = o.user
            /\ o.requested = "t" =>
                   /\ q.team_id = "null" /\ q.is_spectator = "f" /\ q.is_special = "f"
                   /\ ~q.or
                   /\ keyed(FlagChars("0", "0", "0", "1"))
            /\ o.requested = "f" =>
                   /\ q.or /\ asPassed
                   /\ keyed(FlagChars(TriChar(o.players), TriChar(o.spectators),
                                      TriChar(o.specials), "0"))
            /\ o.requested = "u" =>
                   /\ ~q.or /\ asPassed
                   /\ keyed(FlagChars(TriChar(o.players), TriChar(o.spectators),
                                      TriChar(o.specials), "?"))

\* C29 witness: a getGameUserCount and a getGameUsers call that passed
\* requested true together with players true and spectators undefined, and
\* built a query for team_id null and is_spectator false.
C29_Witness ==
    /\ Len(gq) = 2
    /\ gq[1].op = "getGameUserCount" /\ gq[2].op = "getGameUsers"
    /\ \A i \in 1..2 :
        /\ gq[i].options.requested = "t"
        /\ gq[i].options.players = "t" /\ gq[i].options.spectators = "u"
        /\ gq[i].query.team_id = "null" /\ gq[i].query.is_spectator = "f"

\* C29 witness (requested false): a getGameUsers call that passed requested
\* false and players true built a query with the $or and team_id {$ne: null}.
C29_WitnessFalse ==
    \E i \in 1..Len(gq) :
        /\ gq[i].op = "getGameUsers"
        /\ gq[i].options.requested = "f" /\ gq[i].options.players = "t"
        /\ gq[i].query.or /\ gq[i].query.team_id = "ne"

\* ---------------------------------------------------- claims on flushCache
\* C30: a flushCache() call issues one wildcard delete, which empties the
\* fast store when it runs, and leaves no wrapper in the identity cache; its
\* callback is called once: with the error when the delete failed, with null
\* when the delete has run, and a finished flushCache() has called back.
C30_FlushEffect ==
    [][/\ flushCalls' # flushCalls =>
             /\ flush'.st = "issued" /\ flush'.cb = <<>>
             /\ flush'.latch.count = 1
             /\ \A id \in DOMAIN guCache'.map : guCache'.map[id] = 0
             /\ redis' = redis
       /\ (flush.st = "issued" /\ flush'.st = "applied") =>
             /\ \A k \in AllKeys : redis'[k].nil
             /\ flush'.cb = <<>>
       /\ (flushCalls' = flushCalls /\ flush'.cb # flush.cb) =>
             /\ flush.cb = <<>>
             /\ flush'.st = "done"
             /\ \/ flush'.cb = <<"err">> /\ flush.st = "issued" /\ redis' = redis
                \/ flush'.cb = <<"null">> /\ flush.st = "applied" /\ redis' = redis
       /\ flush'.st = "done" => Len(flush'.cb) = 1
       /\ (flush.st = "done" /\ flushCalls' = flushCalls) => flush' = flush]_vars

\* C30 witness: a flushCache() called over a filled fast store and an
\* identity cache holding a wrapper has called back null; the store is
\* empty and the wrapper is gone.
C30_Witness ==
    /\ flush.st = "done"
    /\ flush.cb = <<"null">>
    /\ flush.had # {}
    /\ \A k \in AllKeys : redis[k].nil
    /\ \E c \in created : c.epoch = 0 /\ guCache.map[c.id] = 0

\* C30 witness (failure): the wildcard delete failed and flushCache() has
\* called back the error.
C30_WitnessError ==
    /\ flush.st = "done"
    /\ flush.cb = <<"err">>
    /\ flush.had # {}

\* --------------------------------- claims on unload calls among loads
\* C31: the loaded list never holds two entries with the same factory ID,
\* whatever the order of the getFactory, load, unload and unloadFactory calls
\* and of the store's replies.
C31_NoDuplicateEntries ==
    \A i \in 1..Len(factories), j \in 1..Len(factories) :
        factories[i].id = factories[j].id => i = j

\* C31 witness: after an unload() and an unloadFactory() every factory ID is
\* loaded again, one of them by its second load work.
C31_Witness ==
    /\ un.unloads > 0 /\ un.calls > un.unloads
    /\ Len(factories) = NumFactories
    /\ \E f \in FactoryIds : workStarts[f] >= 2

\* No getFactory and no load() was called since the last unload(), and no
\* load() was in progress when it ran.
NoCallSinceUnload ==
    /\ un.unloads > 0
    /\ \A c \in un.idle : caller[c].st = "idle"
    /\ un.loadOver
    /\ loadCalls = un.loads

\* C32 (as claimed): after unload() has run the loaded list stays empty
\* until a getFactory or load call is made after it; a load in flight when
\* unload() ran adds nothing.
C32_UnloadStays ==
    NoCallSinceUnload => factories = <<>>

\* ------------------------------------- claims on the callbacks of reads
\* The operations C33 names.
CallbackOps ==
    {"isValidId", "getGameUserCount", "getGameUsersCount", "getUserGameState",
     "getGameUser", "getTeamUserCount"}

\* C33 (as claimed): a read of one of the six operations never has called
\* back more than once, and has called back once when nothing of it is
\* still to come.
C33_ExactlyOnce ==
    \A s \in Slots :
        LET r == read[s]
        IN  r.op \in CallbackOps =>
                /\ Len(r.cb) <= 1
                /\ ReadOver(r) => Len(r.cb) = 1

\* The same for the operations that query under latch.then.
C33_ExactlyOnceStaged ==
    \A s \in Slots :
        LET r == read[s]
        IN  r.op \in CallbackOps \ {"isValidId"} =>
                /\ Len(r.cb) <= 1
                /\ ReadOver(r) => Len(r.cb) = 1

\* ------------------------------------------- claims on the deleteTeam route
\* C34 (as claimed): a request that passed the session and data checks never
\* produces two outcomes and eventually produces one (next(err), the error
\* JSON or the 'ok' JSON), the store callbacks all firing.
C34_AlwaysAnswers ==
    /\ [](Len(chain.out) <= 1)
    /\ (chain.st = "run") ~> (Len(chain.out) = 1)

\* The part of C34 that holds: never two outcomes.
C34_AtMostOneOutcome == Len(chain.out) <= 1

\* C35: a team.delete is in flight only in a request whose session was
\* valid, whose game was found, whose admin check and host check both
\* called back without error, and whose user is administrator or host.
C35_DeleteAuthorized ==
    \A o \in chain.ops :
        o.op = "delete" =>
            /\ chain.st = "run"
            /\ chain.resolves[1] = 1
            /\ chain.resolves[2] = 2
            /\ ~chain.calledBack
            /\ chain.isAdmin \/ chain.isHost

\* C35 witness: a team.delete is in flight for a user who is host of the
\* game and not administrator.
C35_Witness ==
    /\ \E o \in chain.ops : o.op = "delete"
    /\ chain.isHost /\ ~chain.isAdmin

\* C35 witness (refusal): a request for some teams by a user who is neither
\* administrator nor host got next(err), and no team lookup or deletion is
\* in flight.
C35_WitnessRefused ==
    /\ chain.st = "run"
    /\ chain.resolves[2] = 2
    /\ ~chain.isAdmin /\ ~chain.isHost
    /\ chain.teams > 0
    /\ chain.ops = {}
    /\ chain.out = <<"next">>

\* C36 (as claimed): when the 'ok' response was sent, team.delete has called
\* back without error for every team of the request, and the deletedTeams
\* array of the response holds exactly those teams.
C36_OkResponse ==
    "ok" \in SeqToSet(chain.out) =>
        /\ chain.deleted = 1..chain.teams
        /\ SeqToSet(chain.sent) = chain.deleted

\* The part of C36 that holds: 'ok' only after every team.delete succeeded.
C36_OkAfterAllDeleted ==
    "ok" \in SeqToSet(chain.out) =>
        /\ chain.deleted = 1..chain.teams
        /\ chain.resolves[3] = chain.teams
        /\ ~chain.cancelled

\* The team.delete calls in flight.
DeletesOf(ch) == {o \in ch.ops : o.op = "delete"}

\* C37 (as claimed): once cancelled is set no team.delete is started, the
\* error has been passed to next once and nothing else is ever sent.
C37_Cancellation ==
    [][chain.cancelled =>
          /\ DeletesOf(chain') \subseteq DeletesOf(chain)
          /\ chain.out = <<"next">>
          /\ chain'.out = chain.out]_vars

\* The part of C37 that holds: after the cancellation the error has been
\* passed to next once and no other response is sent.
C37_OneErrorNoOk ==
    chain.cancelled => chain.out = <<"next">>

\* ------------------------------------ claims on the counters and records
\* How many rows satisfy P.
CountRows(rows, P(_)) == Cardinality({i \in 1..Len(rows) : P(rows[i])})

IsPlayerRow(row) == row.team # 0
IsSpecialRow(row) == row.special
IsSpectatorRow(row) == row.spectator
IsRequestedRow(row) == row.team = 0 /\ ~row.special /\ ~row.spectator

\* C38: the counters getGameUsersCount calls back for the rows: total is
\* the number of rows and equals totalAccepted + requested, requested counts
\* the rows without team that are neither special nor spectator, and
\* players, specials and spectators count the rows with that attribute.
C38_Counters ==
    (rec.st # "rows" /\ rec.op = "getGameUsersCount") =>
        LET v == rec.value
        IN  /\ v[1] = Len(rec.rows)
            /\ v[1] = v[2] + v[6]
            /\ v[6] = CountRows(rec.rows, IsRequestedRow)
            /\ v[3] = CountRows(rec.rows, IsPlayerRow)
            /\ v[4] = CountRows(rec.rows, IsSpecialRow)
            /\ v[5] = CountRows(rec.rows, IsSpectatorRow)

\* C38 witness: counted over a reply of ten rows or more that holds rows of
\* every kind, so that players, specials and spectators overlap.
C38_Witness ==
    /\ rec.st = "stored" /\ rec.op = "getGameUsersCount"
    /\ rec.value[1] >= 10
    /\ \A k \in RowKinds : \E i \in 1..Len(rec.rows) : rec.rows[i] = k
    /\ rec.value[3] + rec.value[4] + rec.value[5] > rec.value[2]

\* C39: the value getGameUsersCount, and getUserGameState, call back on a
\* hit of the record equals, field by field, the value the authoritative
\* path called back when it wrote the record.
C39_RecordRoundTrip ==
    rec.st = "hit" =>
        /\ Len(rec.hit) = Len(rec.value)
        /\ \A i \in 1..Len(rec.value) : rec.hit[i] = rec.value[i]

\* C39 witness: a GameUsersState with counters of two digits came back from
\* its record as it was written.
C39_Witness ==
    /\ rec.st = "hit" /\ rec.op = "getGameUsersCount"
    /\ rec.value[1] >= 10 /\ rec.value[6] > 0
    /\ Len(rec.stored) > 11
    /\ rec.hit = rec.value

\* C39 witness (state): a UserGameState with a flag set came back from its
\* record as it was written.
C39_WitnessState ==
    /\ rec.st = "hit" /\ rec.op = "getUserGameState"
    /\ rec.value[2] = 1 /\ rec.value[3] = 0
    /\ rec.hit = rec.value

====
